---- MODULE Spec2Model ----
(***************************************************************************)
(* A model of the enrichment core of the album web generator:              *)
(*   - ImageFinder  (src/modules/image_finder.py)                          *)
(*   - LyricsFinder (src/modules/lyrics_finder.py)                         *)
(*   - LinkFinder   (src/modules/link_finder.py)                           *)
(*   - contrast / palette helpers (src/modules/enhanced_contrast.py,       *)
(*     src/modules/html_generator.py)                                      *)
(*                                                                         *)
(* Text is a sequence of one-character strings.  "a^" stands for the       *)
(* letter a with an acute accent (U+00E1), "A^" for its capital.           *)
(* Time is counted in ticks, TicksPerUnit to the second.                   *)
(***************************************************************************)
EXTENDS Integers, Sequences, FiniteSets, TLC

VARIABLES
    now,                    \* time.time(), in ticks
    HAS_MUSICBRAINZ,        \* image_finder.py module flag
    cache,                  \* ImageFinder.cache
    last_request_time,      \* ImageFinder.last_request_time
    spotify_client_id,      \* ImageFinder.spotify_client_id is set
    spotify_client_secret,  \* ImageFinder.spotify_client_secret is set
    spotify_token,          \* ImageFinder.spotify_token
    spotify_token_expires,  \* ImageFinder.spotify_token_expires
    lyr_cache,              \* LyricsFinder._cache
    lyr_last_request_time,  \* LyricsFinder._last_request_time
    db_manager,             \* LinkFinder.db_manager: the state of the local store
    lnk_cache,              \* LinkFinder._cache
    lnk_last_request_time,  \* LinkFinder._last_request_time
    call,                   \* history: the last call of a public operation
    first,                  \* history: result of the first call per argument tuple
    grants,                 \* history: time of the last _rate_limit grant per resolver
    sent,                   \* history: start of the last outbound request per resolver
    ncalls,                 \* history: number of calls made
    dominant_color,         \* the dominant colour extracted from the cover
    palette,                \* the palette built last
    the_link_type,              \* the argument of _categorize_link
    the_category,               \* what _categorize_link returned for it
    image,                  \* the cover handed to the colour extraction
    extracted,              \* what the colour extraction returned for it
    threads,                \* the callers that share the resolvers, and where each is
    chains,                 \* history: how often the provider chain ran per key
    processed,              \* what the last process_album did
    albums_data,            \* the album index, albums-data.json
    last_entry,             \* history: the album indexed last and the index before
    nfc                     \* the card monitor: its clock, its two locals, its dispatches

vars == <<now, HAS_MUSICBRAINZ, cache, last_request_time, spotify_client_id,
          spotify_client_secret, spotify_token, spotify_token_expires,
          lyr_cache, lyr_last_request_time, db_manager, lnk_cache,
          lnk_last_request_time, call, first, grants, sent, ncalls,
          dominant_color, palette, the_link_type, the_category,
          image, extracted, threads, chains, processed, albums_data,
          last_entry, nfc>>

imgVars == <<cache, last_request_time, spotify_token, spotify_token_expires>>
lyrVars == <<lyr_cache, lyr_last_request_time>>
lnkVars == <<lnk_cache, lnk_last_request_time>>
envVars == <<HAS_MUSICBRAINZ, spotify_client_id, spotify_client_secret, db_manager>>
colVars == <<dominant_color, palette>>
histVars == <<call, first, grants, sent, ncalls>>
catVars == <<the_link_type, the_category>>
imageVars == <<image, extracted>>
thrVars == <<threads, chains>>
appVars == <<processed, albums_data, last_entry, nfc>>

(***************************************************************************)
(* Bounds of the model.                                                    *)
(***************************************************************************)
\* Ticks per second: the resolution of the clock.
TicksPerUnit == 2
\* Ticks that may pass between calls.
MaxTime == 3
\* Calls of public operations in one run.
MaxCalls == 2
\* Seconds a token lives beyond the margin of 60.
MaxLifetime == 3
MaxAlbums == 3
MaxNfcTime == 18
MaxElapsed == 2
\* Ticks a request may take.
MaxLatency == 1
\* Steps per colour channel of the dominant colours tried.
MaxLevel == 15

(***************************************************************************)
(* Python values.                                                          *)
(***************************************************************************)
None == [py |-> "None"]

\* bool(x) of a dict-or-None value: None and the empty dict are falsy.
Truthy(v) == v # None /\ DOMAIN v # {}

\* A store that keeps only found results.
StoreFound(c, key, value) ==
    IF Truthy(value) THEN (key :> value) @@ c ELSE c

\* A cache that holds only the entry stored last.
StoreAlone(c, key, value) == (key :> value)

\* c[key] = value on a dict
Store(c, key, value) == (key :> value) @@ c

\* str(x) inside an f-string, for a text-or-None value.
NoneText == <<"None">>
Str(x) == IF x = NoneText THEN <<"N", "o", "n", "e">> ELSE x

(***************************************************************************)
(* Text.                                                                   *)
(***************************************************************************)
\* str.lower() of one character.
Upper == <<"A", "B", "C", "D", "E", "F", "G", "H", "I", "J", "K", "L", "M",
           "N", "O", "P", "Q", "R", "S", "T", "U", "V", "W", "X", "Y", "Z",
           "A^", "E^">>
Small == <<"a", "b", "c", "d", "e", "f", "g", "h", "i", "j", "k", "l", "m",
           "n", "o", "p", "q", "r", "s", "t", "u", "v", "w", "x", "y", "z",
           "a^", "e^">>

LowerChar(c) ==
    IF \E i \in 1..Len(Upper) : Upper[i] = c
    THEN Small[CHOOSE i \in 1..Len(Upper) : Upper[i] = c]
    ELSE c

\* A comparison that leaves the case of the text alone.
Verbatim(text) == text

Lower(text) == [i \in 1..Len(text) |-> LowerChar(text[i])]

\* unicodedata.normalize('NFD', c) with the combining marks (category Mn)
\* dropped.
StripMark(c) ==
    CASE c = "a^" -> "a" [] c = "e^" -> "e" [] c = "A^" -> "A" [] c = "E^" -> "E"
      [] OTHER -> c

\* The replacements table of normalize_text, per character.
Replacement(c) ==
    CASE c = "'" -> <<>>
      [] c = "&" -> <<"a", "n", "d">>
      [] OTHER -> <<c>>

RECURSIVE Replace(_)
Replace(text) ==
    IF text = <<>> THEN <<>> ELSE Replacement(Head(text)) \o Replace(Tail(text))

\* re.sub of a run of blanks by one blank.
RECURSIVE Collapse(_)
Collapse(text) ==
    IF Len(text) < 2 THEN text
    ELSE IF text[1] = " " /\ text[2] = " " THEN Collapse(Tail(text))
    ELSE <<text[1]>> \o Collapse(Tail(text))

\* str.strip()
RECURSIVE Strip(_)
Strip(text) ==
    IF text = <<>> THEN text
    ELSE IF Head(text) = " " THEN Strip(Tail(text))
    ELSE IF text[Len(text)] = " " THEN Strip(SubSeq(text, 1, Len(text) - 1))
    ELSE text

\* link_finder.normalize_text
normalize_text(text) ==
    Strip(Collapse(Replace([i \in 1..Len(text) |-> StripMark(LowerChar(text[i]))])))

\* needle in text
Contains(text, needle) ==
    \E i \in 0..(Len(text) - Len(needle)) :
        SubSeq(text, i + 1, i + Len(needle)) = needle

\* urllib.parse.quote of one character (letters, digits and _.-~/ are safe).
QuoteChar(c) ==
    CASE c = "a^" -> <<"%", "C", "3", "%", "A", "1">>
      [] c = "e^" -> <<"%", "C", "3", "%", "A", "9">>
      [] c = "A^" -> <<"%", "C", "3", "%", "8", "1">>
      [] c = "E^" -> <<"%", "C", "3", "%", "8", "9">>
      [] c = " " -> <<"%", "2", "0">>
      [] c = "'" -> <<"%", "2", "7">>
      [] c = "&" -> <<"%", "2", "6">>
      [] OTHER -> <<c>>

RECURSIVE Quote(_)
Quote(text) ==
    IF text = <<>> THEN <<>> ELSE QuoteChar(Head(text)) \o Quote(Tail(text))

\* str.replace(old, new) for a one-character old.
RECURSIVE ReplaceChar(_, _, _)
ReplaceChar(text, old, new) ==
    IF text = <<>> THEN <<>>
    ELSE (IF Head(text) = old THEN new ELSE <<Head(text)>>)
         \o ReplaceChar(Tail(text), old, new)

\* str.replace('--', '-'): left to right, non-overlapping.
RECURSIVE ReplaceDashes(_)
ReplaceDashes(text) ==
    IF Len(text) < 2 THEN text
    ELSE IF text[1] = "-" /\ text[2] = "-"
         THEN <<"-">> \o ReplaceDashes(SubSeq(text, 3, Len(text)))
    ELSE <<text[1]>> \o ReplaceDashes(Tail(text))

\* str(n) for the small counts that occur in link keys.
Digits(n) ==
    IF n < 10 THEN <<<<"0", "1", "2", "3", "4", "5", "6", "7", "8", "9">>[n + 1]>>
    ELSE <<"1", <<"0", "1", "2", "3", "4", "5", "6", "7", "8", "9">>[n - 10 + 1]>>

(***************************************************************************)
(* Time and throttling.                                                    *)
(***************************************************************************)
\* Seconds between requests, in ticks.
rate_limit_delay == 1 * TicksPerUnit
lyr_min_request_interval == 1 * TicksPerUnit
lnk_min_request_interval == 1 * TicksPerUnit

\* A throttle that never sleeps.
NoSleep(time_since_last, delay) == 0

\* The argument of time.sleep in _rate_limit (0: no sleep).
SleepTime(time_since_last, delay) ==
    IF time_since_last < delay THEN delay - time_since_last ELSE 0

\* A run is the thread of one handler: the clock, the resolver's
\* last-request time, and what the handler has done so far.
\* granted is the time _rate_limit last returned on this resolver; prior
\* holds the start of the resolver's last outbound request, if it made one;
\* sent collects the starts of the requests and checks the URLs verified.
NewRun(last, granted, prior) ==
    [now |-> now, last |-> last, granted |-> granted, invoked |-> <<>>, outcomes |-> <<>>,
     requests |-> 0, acq |-> <<>>, raised |-> FALSE,
     token |-> spotify_token, token_expires |-> spotify_token_expires,
     sent |-> prior, checks |-> <<>>, token_log |-> <<>>]

\* The start of the last request of a run, kept for the resolver's next run.
LastSent(rs) ==
    IF rs.sent = <<>> THEN <<>> ELSE <<rs.sent[Len(rs.sent)]>>

\* _rate_limit(): sleep if needed, then stamp last_request_time.
RateLimit(rs, delay) ==
    LET t == rs.now + SleepTime(rs.now - rs.last, delay)
    IN [rs EXCEPT !.now = t,
                  !.last = t,
                  !.granted = t,
                  !.acq = Append(@, [enter |-> rs.now, grant |-> t,
                                     prev |-> rs.granted, stamp |-> rs.last])]

\* One outbound request taking lat ticks.
Request(rs, lat) ==
    [rs EXCEPT !.now = @ + lat, !.requests = @ + 1,
               !.sent = Append(@, rs.now)]

\* Entering a provider function.
Enter(rs, name, outcome) ==
    [rs EXCEPT !.invoked = Append(@, name), !.outcomes = Append(@, outcome)]

(***************************************************************************)
(* ImageFinder.                                                            *)
(***************************************************************************)
TokenMargin == 60

\* What the remote side can answer.
MBAlbumOutcomes == {"found", "no_release", "no_cover", "error"}
MBArtistOutcomes == {"found", "empty", "error"}
DiscogsOutcomes == {"found", "empty", "error"}
DBImageOutcomes == {"found", "empty", "error"}
\* What the token endpoint answers: ok, no exception up to response.json()
\* and an access_token in the body; expiry_given, the body also has a
\* numeric expires_in.
TokenOutcomes ==
    {[ok |-> FALSE, expiry_given |-> FALSE, expires_in |-> 0],
     [ok |-> TRUE, expiry_given |-> FALSE, expires_in |-> 0]} \cup
    {[ok |-> TRUE, expiry_given |-> TRUE, expires_in |-> TokenMargin + k] :
        k \in 0..MaxLifetime}

AlbumCacheKey(artist, album) ==
    <<"a", "l", "b", "u", "m", "_">> \o artist \o <<"_">> \o album

ArtistCacheKey(artist) ==
    <<"a", "r", "t", "i", "s", "t", "_">> \o artist

\* _search_musicbrainz_album: everything after the flag test is inside
\* try/except Exception, so every failure ends in "return None".
SearchMusicbrainzAlbum(rs0, outcome, lat) ==
    IF ~HAS_MUSICBRAINZ
    THEN [rs |-> Enter(rs0, "musicbrainz", "skipped"), result |-> None]
    ELSE
      LET rs1 == RateLimit(Enter(rs0, "musicbrainz", outcome), rate_limit_delay)
          rs2 == Request(rs1, lat)
      IN CASE outcome = "found" ->
                [rs |-> Request(rs2, lat),
                 result |-> [url |-> "caa_front", source |-> "MusicBrainz Cover Art Archive",
                             size |-> "large", mbid |-> "release_id"]]
           [] outcome = "no_cover" -> [rs |-> Request(rs2, lat), result |-> None]
           [] OTHER -> [rs |-> rs2, result |-> None]

\* _search_lastfm_album: the request is commented out in the source; the
\* function throttles and returns None.
SearchLastfmAlbum(rs0) ==
    [rs |-> RateLimit(Enter(rs0, "lastfm", "empty"), rate_limit_delay),
     result |-> None]

\* _search_discogs_album
SearchDiscogsAlbum(rs0, outcome, lat) ==
    LET rs1 == Request(RateLimit(Enter(rs0, "discogs", outcome), rate_limit_delay), lat)
    IN IF outcome = "found"
       THEN [rs |-> rs1,
             result |-> [url |-> "cover_image", source |-> "Discogs", size |-> "medium"]]
       ELSE [rs |-> rs1, result |-> None]

\* _search_database_artist_image: a local query, inside try/except Exception.
SearchDatabaseArtistImage(rs0, outcome) ==
    [rs |-> Enter(rs0, "database", outcome),
     result |-> IF outcome = "found"
                THEN [url |-> "img_path", source |-> "database"]
                ELSE None]

\* _search_musicbrainz_artist: a hit carries the MBID and no image URL.
SearchMusicbrainzArtist(rs0, outcome, lat) ==
    IF ~HAS_MUSICBRAINZ
    THEN [rs |-> Enter(rs0, "musicbrainz", "skipped"), result |-> None]
    ELSE
      LET rs1 == Request(RateLimit(Enter(rs0, "musicbrainz", outcome), rate_limit_delay), lat)
      IN IF outcome = "found"
         THEN [rs |-> rs1, result |-> [mbid |-> "artist_id", source |-> "MusicBrainz"]]
         ELSE [rs |-> rs1, result |-> None]

\* _search_lastfm_artist
SearchLastfmArtist(rs0) ==
    [rs |-> RateLimit(Enter(rs0, "lastfm", "empty"), rate_limit_delay),
     result |-> None]

\* _get_spotify_token: TRUE iff a usable token is held afterwards.  A body
\* without expires_in raises KeyError after spotify_token was assigned.  Each
\* call is noted in token_log.
GetSpotifyToken(rs0, tok, lat) ==
    LET Noted(rs, requested, ok) ==
            [rs EXCEPT !.token_log =
                Append(@, [at |-> rs0.now, token |-> rs0.token,
                           token_expires |-> rs0.token_expires,
                           requested |-> requested, ok |-> ok,
                           token_after |-> rs.token,
                           token_expires_after |-> rs.token_expires])]
    IN
    IF ~spotify_client_id \/ ~spotify_client_secret
    THEN [rs |-> Noted(rs0, FALSE, FALSE), ok |-> FALSE]
    ELSE IF rs0.token # "None" /\ rs0.now < rs0.token_expires
    THEN [rs |-> Noted(rs0, FALSE, TRUE), ok |-> TRUE]
    ELSE
      LET rs1 == Request(rs0, lat)
      IN IF tok.ok /\ tok.expiry_given
         THEN [rs |-> Noted([rs1 EXCEPT !.token = "access_token",
                                  !.token_expires =
                                      rs1.now + (tok.expires_in - TokenMargin) * TicksPerUnit],
                            TRUE, TRUE),
               ok |-> TRUE]
         ELSE IF tok.ok
         THEN [rs |-> Noted([rs1 EXCEPT !.token = "access_token"], TRUE, FALSE),
               ok |-> FALSE]
         ELSE [rs |-> Noted(rs1, TRUE, FALSE), ok |-> FALSE]

\* _search_spotify_artist
SearchSpotifyArtist(rs0, outcome, tok, lat) ==
    LET t == GetSpotifyToken(Enter(rs0, "spotify", outcome), tok, lat)
    IN IF ~t.ok
       THEN [rs |-> t.rs, result |-> None]
       ELSE
         LET rs1 == Request(RateLimit(t.rs, rate_limit_delay), lat)
         IN IF outcome = "found"
            THEN [rs |-> rs1, result |-> [url |-> "spotify_image", source |-> "spotify"]]
            ELSE [rs |-> rs1, result |-> None]

\* The same providers with the marketplace asked first.
DiscogsFirstChain(rs0, mb, dg, lat) ==
    LET p1 == SearchDiscogsAlbum(rs0, dg, lat)
        p2 == IF ~Truthy(p1.result) THEN SearchMusicbrainzAlbum(p1.rs, mb, lat) ELSE p1
        p3 == IF ~Truthy(p2.result) THEN SearchLastfmAlbum(p2.rs) ELSE p2
    IN p3

\* The provider chain of find_album_image (lines 87-99).
AlbumImageChain(rs0, mb, dg, lat) ==
    LET p1 == SearchMusicbrainzAlbum(rs0, mb, lat)
        p2 == IF ~Truthy(p1.result) THEN SearchLastfmAlbum(p1.rs) ELSE p1
        p3 == IF ~Truthy(p2.result) THEN SearchDiscogsAlbum(p2.rs, dg, lat) ELSE p2
    IN p3

\* The provider chain of find_artist_image (lines 121-140); early is TRUE when
\* the database branch returned.
ArtistImageChain(rs0, db, dbo, mb, sp, tok, lat) ==
    LET p0 == IF db THEN SearchDatabaseArtistImage(rs0, dbo)
                    ELSE [rs |-> rs0, result |-> None]
        p1 == SearchMusicbrainzArtist(p0.rs, mb, lat)
        p2 == IF ~Truthy(p1.result) THEN SearchLastfmArtist(p1.rs) ELSE p1
        p3 == IF ~Truthy(p2.result) /\ spotify_client_id
              THEN SearchSpotifyArtist(p2.rs, sp, tok, lat) ELSE p2
    IN IF db /\ Truthy(p0.result) THEN p0 ELSE p3

\* History bookkeeping shared by every public operation.
Raised == [py |-> "Exception"]

\* world is what the environment offered to this call.
Record(op, args, world, hit, rs, result) ==
    /\ call' = [op |-> op, args |-> args, world |-> world, hit |-> hit,
                repeat |-> <<op, args>> \in DOMAIN first,
                invoked |-> rs.invoked, outcomes |-> rs.outcomes,
                requests |-> rs.requests, acq |-> rs.acq,
                sent |-> rs.sent, checks |-> rs.checks, token_log |-> rs.token_log,
                raised |-> rs.raised, result |-> result,
                cached |-> ~rs.raised]
    /\ first' = IF <<op, args>> \in DOMAIN first
                THEN first
                ELSE (<<op, args>> :> result) @@ first
    /\ ncalls' = ncalls + 1

CanCall == ncalls < MaxCalls

\* ImageFinder.find_album_image(artist, album)
FindAlbumImage(artist, album, mb, dg, lat) ==
    /\ CanCall
    /\ LET cache_key == AlbumCacheKey(artist, album)
           rs0 == NewRun(last_request_time, grants.image, sent.image)
       IN IF cache_key \in DOMAIN cache
          THEN /\ Record("find_album_image", <<artist, album>>, [mb |-> mb, dg |-> dg],
                    TRUE, rs0, cache[cache_key])
               /\ UNCHANGED <<now, imgVars, grants, sent>>
          ELSE \E p \in {AlbumImageChain(rs0, mb, dg, lat)} :
                  /\ cache' = Store(cache, cache_key, p.result)
                  /\ last_request_time' = p.rs.last
                  /\ now' = p.rs.now
                  /\ grants' = [grants EXCEPT !.image = p.rs.granted]
                  /\ sent' = [sent EXCEPT !.image = LastSent(p.rs)]
                  /\ Record("find_album_image", <<artist, album>>, [mb |-> mb, dg |-> dg],
                    FALSE, p.rs, p.result)
                  /\ UNCHANGED <<spotify_token, spotify_token_expires>>
    /\ UNCHANGED <<lyrVars, lnkVars, envVars, colVars, catVars, imageVars, thrVars,
                   appVars>>

\* ImageFinder.find_artist_image(artist, db_manager); db: a manager is passed.
FindArtistImage(artist, db, dbo, mb, sp, tok, lat) ==
    /\ CanCall
    /\ LET cache_key == ArtistCacheKey(artist)
           rs0 == NewRun(last_request_time, grants.image, sent.image)
       IN IF cache_key \in DOMAIN cache
          THEN /\ Record("find_artist_image", <<artist, db>>,
                    [dbo |-> dbo, mb |-> mb, sp |-> sp, tok |-> tok],
                    TRUE, rs0, cache[cache_key])
               /\ UNCHANGED <<now, imgVars, grants, sent>>
          ELSE \E p \in {ArtistImageChain(rs0, db, dbo, mb, sp, tok, lat)} :
                  /\ cache' = Store(cache, cache_key, p.result)
                  /\ last_request_time' = p.rs.last
                  /\ now' = p.rs.now
                  /\ spotify_token' = p.rs.token
                  /\ spotify_token_expires' = p.rs.token_expires
                  /\ grants' = [grants EXCEPT !.image = p.rs.granted]
                  /\ sent' = [sent EXCEPT !.image = LastSent(p.rs)]
                  /\ Record("find_artist_image", <<artist, db>>,
                    [dbo |-> dbo, mb |-> mb, sp |-> sp, tok |-> tok],
                    FALSE, p.rs, p.result)
    /\ UNCHANGED <<lyrVars, lnkVars, envVars, colVars, catVars, imageVars, thrVars,
                   appVars>>

(***************************************************************************)
(* LyricsFinder.                                                           *)
(***************************************************************************)
OvhOutcomes == {"found", "blank", "empty", "error"}

LyricsCacheKey(artist, title) == artist \o <<"_">> \o title

\* 'Pista Sin Titulo' (with an accented i), the placeholder of untitled tracks.
UNTITLED == <<"P", "i", "s", "t", "a", " ", "S", "i", "n", " ", "T", "i^", "t", "u", "l", "o">>

\* _search_genius_scraping: throttles, then "return None" (disabled).
SearchGeniusScraping(rs0) ==
    [rs |-> RateLimit(Enter(rs0, "genius", "empty"), lyr_min_request_interval),
     result |-> None]

\* _search_azlyrics: throttles, then "return None" (disabled).
SearchAzlyrics(rs0) ==
    [rs |-> RateLimit(Enter(rs0, "azlyrics", "empty"), lyr_min_request_interval),
     result |-> None]

\* _search_lyrics_ovh: "blank" is a 200 answer whose lyrics are only blanks.
SearchLyricsOvh(rs0, outcome, lat) ==
    LET rs1 == Request(RateLimit(Enter(rs0, "lyrics.ovh", outcome),
                                 lyr_min_request_interval), lat)
    IN CASE outcome = "found" ->
              [rs |-> rs1, result |-> [lyrics |-> "text", source |-> "lyrics.ovh",
                                       url |-> "None", confidence |-> "medium"]]
         [] outcome = "blank" ->
              [rs |-> rs1, result |-> [lyrics |-> "", source |-> "lyrics.ovh",
                                       url |-> "None", confidence |-> "medium"]]
         [] OTHER -> [rs |-> rs1, result |-> None]

\* The provider chain of _search_lyrics (lines 85-96).
LyricsChain(rs0, ovh, lat) ==
    LET p1 == SearchGeniusScraping(rs0)
        p2 == IF ~Truthy(p1.result) THEN SearchAzlyrics(p1.rs) ELSE p1
        p3 == IF ~Truthy(p2.result) THEN SearchLyricsOvh(p2.rs, ovh, lat) ELSE p2
    IN p3

\* _search_lyrics as a function of the run and the cache c: the run after it,
\* the cache after it, and its return value.
SearchLyricsIn(rs0, c, artist, title, ovh, lat) ==
    LET cache_key == LyricsCacheKey(artist, title)
    IN IF cache_key \in DOMAIN c
       THEN [rs |-> rs0, cache |-> c, result |-> c[cache_key], hit |-> TRUE]
       ELSE LET p == LyricsChain(rs0, ovh, lat)
            IN [rs |-> p.rs, cache |-> Store(c, cache_key, p.result),
                result |-> p.result, hit |-> FALSE]

\* A lyrics lookup that throttles on the image resolver's timestamp as well,
\* as if the two resolvers shared one limiter.
SearchLyricsSharedLimiter(artist, title, ovh, lat) ==
    /\ CanCall
    /\ \E r \in {SearchLyricsIn(NewRun(lyr_last_request_time, grants.lyrics, sent.lyrics),
                                 lyr_cache, artist, title, ovh, lat)} :
          /\ lyr_cache' = r.cache
          /\ lyr_last_request_time' = r.rs.last
          /\ last_request_time' = r.rs.now
          /\ now' = r.rs.now
          /\ grants' = [grants EXCEPT !.lyrics = r.rs.granted]
          /\ sent' = [sent EXCEPT !.lyrics = LastSent(r.rs)]
          /\ Record("_search_lyrics", <<artist, title>>, [ovh |-> ovh],
                   r.hit, r.rs, r.result)
    /\ UNCHANGED <<cache, spotify_token, spotify_token_expires, lnkVars,
                   envVars, colVars, catVars, imageVars, thrVars, appVars>>

\* LyricsFinder._search_lyrics(artist, title)
SearchLyrics(artist, title, ovh, lat) ==
    /\ CanCall
    /\ \E r \in {SearchLyricsIn(NewRun(lyr_last_request_time, grants.lyrics, sent.lyrics),
                                 lyr_cache, artist, title, ovh, lat)} :
          /\ lyr_cache' = r.cache
          /\ lyr_last_request_time' = r.rs.last
          /\ now' = r.rs.now
          /\ grants' = [grants EXCEPT !.lyrics = r.rs.granted]
          /\ sent' = [sent EXCEPT !.lyrics = LastSent(r.rs)]
          /\ Record("_search_lyrics", <<artist, title>>, [ovh |-> ovh],
                   r.hit, r.rs, r.result)
    /\ UNCHANGED <<imgVars, lnkVars, envVars, colVars, catVars, imageVars, thrVars,
                   appVars>>

NotFoundEntry ==
    [lyrics |-> "None", source |-> "None", url |-> "None",
     error |-> "No se encontraron letras"]

\* A loop that looks up every track, titled or not.
RECURSIVE SearchEveryTrack(_, _, _, _, _, _)
SearchEveryTrack(st, artist, tracks, ovhs, lat, i) ==
    IF i > Len(tracks) THEN st
    ELSE
      LET track == tracks[i]
          track_title == IF "title" \in DOMAIN track THEN track.title ELSE <<>>
          track_artist == IF "artist" \in DOMAIN track THEN track.artist ELSE artist
          r == SearchLyricsIn(st.rs, st.cache, track_artist, track_title,
                              ovhs[i], lat)
          entry == IF Truthy(r.result) THEN r.result ELSE NotFoundEntry
      IN SearchEveryTrack(
            [rs |-> r.rs, cache |-> r.cache,
             data |-> (track_title :> entry) @@
                      [t \in DOMAIN st.data \ {track_title} |-> st.data[t]]],
            artist, tracks, ovhs, lat, i + 1)

\* The loop of find_lyrics over tracks[i..]; st carries the run, the cache and
\* lyrics_data.  A track is a record with a title and, optionally, an artist.
RECURSIVE FindLyricsLoop(_, _, _, _, _, _)
FindLyricsLoop(st, artist, tracks, ovhs, lat, i) ==
    IF i > Len(tracks) THEN st
    ELSE
      LET track == tracks[i]
          track_title == IF "title" \in DOMAIN track THEN track.title ELSE <<>>
          track_artist == IF "artist" \in DOMAIN track THEN track.artist ELSE artist
      IN IF track_title = <<>> \/ track_title = UNTITLED
         THEN FindLyricsLoop(st, artist, tracks, ovhs, lat, i + 1)
         ELSE
           LET r == SearchLyricsIn(st.rs, st.cache, track_artist, track_title,
                                   ovhs[i], lat)
               entry == IF Truthy(r.result) THEN r.result ELSE NotFoundEntry
           IN FindLyricsLoop(
                 [rs |-> r.rs, cache |-> r.cache,
                  data |-> (track_title :> entry) @@
                           [t \in DOMAIN st.data \ {track_title} |-> st.data[t]]],
                 artist, tracks, ovhs, lat, i + 1)

\* LyricsFinder.find_lyrics(artist, tracks)
FindLyrics(artist, tracks, ovhs, lat) ==
    /\ CanCall
    /\ \E st \in {FindLyricsLoop([rs |-> NewRun(lyr_last_request_time, grants.lyrics, sent.lyrics),
                                   cache |-> lyr_cache, data |-> <<>>],
                                  artist, tracks, ovhs, lat, 1)} :
          /\ lyr_cache' = st.cache
          /\ lyr_last_request_time' = st.rs.last
          /\ now' = st.rs.now
          /\ grants' = [grants EXCEPT !.lyrics = st.rs.granted]
          /\ sent' = [sent EXCEPT !.lyrics = LastSent(st.rs)]
          /\ Record("find_lyrics", <<artist, tracks>>, [ovhs |-> ovhs],
                   FALSE, st.rs, st.data)
    /\ UNCHANGED <<imgVars, lnkVars, envVars, colVars, catVars, imageVars, thrVars,
                   appVars>>

(***************************************************************************)
(* LinkFinder.                                                             *)
(***************************************************************************)
LinkCacheKey(artist, album, mbid) ==
    artist \o <<"_">> \o album \o <<"_">> \o Str(mbid)

\* _categorize_link
SocialWords == {<<"t", "w", "i", "t", "t", "e", "r">>, <<"f", "a", "c", "e", "b", "o", "o", "k">>, <<"i", "n", "s", "t", "a", "g", "r", "a", "m">>, <<"b", "l", "u", "e", "s", "k", "y">>, <<"t", "i", "k", "t", "o", "k">>}
StreamingWords == {<<"s", "p", "o", "t", "i", "f", "y">>, <<"a", "p", "p", "l", "e">>, <<"y", "o", "u", "t", "u", "b", "e">>, <<"b", "a", "n", "d", "c", "a", "m", "p">>}
InfoWords == {<<"w", "i", "k", "i", "p", "e", "d", "i", "a">>, <<"d", "i", "s", "c", "o", "g", "s">>, <<"m", "u", "s", "i", "c", "b", "r", "a", "i", "n", "z">>, <<"l", "a", "s", "t", "f", "m">>, <<"g", "e", "n", "i", "u", "s">>}
OfficialWords == {<<"o", "f", "f", "i", "c", "i", "a", "l">>, <<"w", "e", "b", "s", "i", "t", "e">>, <<"h", "o", "m", "e", "p", "a", "g", "e">>}

categorize_link(link_type) ==
    LET link_type_lower == Lower(link_type)
    IN IF \E w \in SocialWords : Contains(link_type_lower, w) THEN "social"
       ELSE IF \E w \in StreamingWords : Contains(link_type_lower, w) THEN "streaming"
       ELSE IF \E w \in InfoWords : Contains(link_type_lower, w) THEN "info"
       ELSE IF \E w \in OfficialWords : Contains(link_type_lower, w) THEN "official"
       ELSE "other"

\* LinkFinder._categorize_link(link_type)
CategorizeLink ==
    /\ the_category' = categorize_link(the_link_type)
    /\ UNCHANGED <<now, imgVars, lyrVars, lnkVars, envVars, colVars, histVars,
                   the_link_type, imageVars, thrVars, appVars>>

\* A verification that accepts every answer, whatever its status code.
AcceptAnyAnswer(rs0, status, lat) ==
    LET rs1 == [rs0 EXCEPT !.now = @ + SleepTime(rs0.now - rs0.last,
                                                  lnk_min_request_interval)]
        rs2 == Request(rs1, lat)
    IN IF status = 0
       THEN [rs |-> rs2, ok |-> FALSE]
       ELSE [rs |-> [rs2 EXCEPT !.last = rs2.now], ok |-> TRUE]

\* _verify_url_exists: its own throttle, the HEAD request, and the stamp of
\* _last_request_time, which an exception skips.  status is the answer's
\* status code, or 0 for an exception (timeout, connection error).
VerifyUrlExists(rs0, status, lat) ==
    LET rs1 == [rs0 EXCEPT !.now = @ + SleepTime(rs0.now - rs0.last,
                                                  lnk_min_request_interval)]
        rs2 == Request(rs1, lat)
    IN IF status = 0
       THEN [rs |-> rs2, ok |-> FALSE]
       ELSE [rs |-> [rs2 EXCEPT !.last = rs2.now],
             ok |-> status \in {200, 301, 302}]

\* url_patterns of _construct_verified_links, in dictionary order; titled is
\* service.title().
UrlPatterns(artist, album) ==
    LET normalized_artist ==
            ReplaceDashes(ReplaceChar(normalize_text(artist), " ", <<"-">>))
        both == Quote(artist \o <<" ">> \o album)
    IN <<
      [service |-> <<"l", "a", "s", "t", "f", "m">>, titled |-> <<"L", "a", "s", "t", "f", "m">>, category |-> "info",
       urls |-> << <<"h", "t", "t", "p", "s", ":", "/", "/", "w", "w", "w", ".", "l", "a", "s", "t", ".", "f", "m", "/", "m", "u", "s", "i", "c", "/">> \o Quote(artist),
                   <<"h", "t", "t", "p", "s", ":", "/", "/", "w", "w", "w", ".", "l", "a", "s", "t", ".", "f", "m", "/", "m", "u", "s", "i", "c", "/">> \o Quote(artist) \o <<"/">> \o Quote(album) >>],
      [service |-> <<"y", "o", "u", "t", "u", "b", "e">>, titled |-> <<"Y", "o", "u", "t", "u", "b", "e">>, category |-> "streaming",
       urls |-> << <<"h", "t", "t", "p", "s", ":", "/", "/", "w", "w", "w", ".", "y", "o", "u", "t", "u", "b", "e", ".", "c", "o", "m", "/", "c", "h", "a", "n", "n", "e", "l", "/">> \o normalized_artist,
                   <<"h", "t", "t", "p", "s", ":", "/", "/", "w", "w", "w", ".", "y", "o", "u", "t", "u", "b", "e", ".", "c", "o", "m", "/", "r", "e", "s", "u", "l", "t", "s", "?", "s", "e", "a", "r", "c", "h", "_", "q", "u", "e", "r", "y", "=">> \o both >>],
      [service |-> <<"s", "p", "o", "t", "i", "f", "y">>, titled |-> <<"S", "p", "o", "t", "i", "f", "y">>, category |-> "streaming",
       urls |-> << <<"h", "t", "t", "p", "s", ":", "/", "/", "o", "p", "e", "n", ".", "s", "p", "o", "t", "i", "f", "y", ".", "c", "o", "m", "/", "a", "r", "t", "i", "s", "t", "/">> \o normalized_artist,
                   <<"h", "t", "t", "p", "s", ":", "/", "/", "o", "p", "e", "n", ".", "s", "p", "o", "t", "i", "f", "y", ".", "c", "o", "m", "/", "s", "e", "a", "r", "c", "h", "/">> \o both >>],
      [service |-> <<"d", "i", "s", "c", "o", "g", "s">>, titled |-> <<"D", "i", "s", "c", "o", "g", "s">>, category |-> "info",
       urls |-> << <<"h", "t", "t", "p", "s", ":", "/", "/", "w", "w", "w", ".", "d", "i", "s", "c", "o", "g", "s", ".", "c", "o", "m", "/", "a", "r", "t", "i", "s", "t", "/">> \o normalized_artist,
                   <<"h", "t", "t", "p", "s", ":", "/", "/", "w", "w", "w", ".", "d", "i", "s", "c", "o", "g", "s", ".", "c", "o", "m", "/", "s", "e", "a", "r", "c", "h", "/", "?", "q", "=">> \o both \o <<"&", "t", "y", "p", "e", "=", "a", "l", "l">> >>],
      [service |-> <<"w", "i", "k", "i", "p", "e", "d", "i", "a">>, titled |-> <<"W", "i", "k", "i", "p", "e", "d", "i", "a">>, category |-> "info",
       urls |-> << <<"h", "t", "t", "p", "s", ":", "/", "/", "e", "n", ".", "w", "i", "k", "i", "p", "e", "d", "i", "a", ".", "o", "r", "g", "/", "w", "i", "k", "i", "/">> \o normalized_artist,
                   <<"h", "t", "t", "p", "s", ":", "/", "/", "e", "s", ".", "w", "i", "k", "i", "p", "e", "d", "i", "a", ".", "o", "r", "g", "/", "w", "i", "k", "i", "/">> \o normalized_artist >>],
      [service |-> <<"m", "u", "s", "i", "c", "b", "r", "a", "i", "n", "z">>, titled |-> <<"M", "u", "s", "i", "c", "b", "r", "a", "i", "n", "z">>, category |-> "info",
       urls |-> << <<"h", "t", "t", "p", "s", ":", "/", "/", "m", "u", "s", "i", "c", "b", "r", "a", "i", "n", "z", ".", "o", "r", "g", "/", "s", "e", "a", "r", "c", "h", "?", "q", "u", "e", "r", "y", "=">> \o Quote(artist)
                   \o <<"&", "t", "y", "p", "e", "=", "a", "r", "t", "i", "s", "t">> >>],
      [service |-> <<"g", "e", "n", "i", "u", "s">>, titled |-> <<"G", "e", "n", "i", "u", "s">>, category |-> "info",
       urls |-> << <<"h", "t", "t", "p", "s", ":", "/", "/", "g", "e", "n", "i", "u", "s", ".", "c", "o", "m", "/", "a", "r", "t", "i", "s", "t", "s", "/">> \o normalized_artist >>],
      [service |-> <<"r", "a", "t", "e", "y", "o", "u", "r", "m", "u", "s", "i", "c">>, titled |-> <<"R", "a", "t", "e", "y", "o", "u", "r", "m", "u", "s", "i", "c">>, category |-> "info",
       urls |-> << <<"h", "t", "t", "p", "s", ":", "/", "/", "r", "a", "t", "e", "y", "o", "u", "r", "m", "u", "s", "i", "c", ".", "c", "o", "m", "/", "a", "r", "t", "i", "s", "t", "/">> \o normalized_artist >>]
    >>

\* Number of links filed under a category: len(all_links.get(category, {})).
CategorySize(links, category) ==
    Cardinality({k \in DOMAIN links : k[1] = category})

\* A dictionary of dictionaries is a function from <<category, key>> to the
\* link; dict.update gives precedence to its argument.
Update(links, more) ==
    [k \in DOMAIN links \cup DOMAIN more |->
        IF k \in DOMAIN more THEN more[k] ELSE links[k]]

\* A loop over the candidates of one service without the break: every
\* candidate is verified and every accepted one is filed.
RECURSIVE VerifyEveryCandidate(_, _, _, _, _, _, _)
VerifyEveryCandidate(st, config, artist, album, web, lat, j) ==
    IF j > Len(config.urls) THEN st
    ELSE
      LET url == config.urls[j]
          v0 == VerifyUrlExists(st.rs, web[j], lat)
          v == [v0 EXCEPT !.rs.checks =
                    Append(@, [service |-> config.service, candidate |-> j,
                               url |-> url, status |-> web[j], ok |-> v0.ok])]
          key == config.service \o <<"_">>
                 \o Digits(CategorySize(st.links, config.category))
          links == IF v.ok
                   THEN Update(st.links,
                               (<<config.category, key>> :>
                                  [url |-> url, title |-> config.titled,
                                   source |-> config.service]))
                   ELSE st.links
      IN VerifyEveryCandidate([rs |-> v.rs, links |-> links], config, artist,
                              album, web, lat, j + 1)

\* The candidates of one service, config.urls[j..] (lines 205-223): the first
\* URL that verifies is filed and ends the loop.  web[j] is the answer to a
\* HEAD request for the service's j-th candidate.
RECURSIVE VerifyService(_, _, _, _, _, _, _)
VerifyService(st, config, artist, album, web, lat, j) ==
    IF j > Len(config.urls) THEN st
    ELSE
      LET url == config.urls[j]
          v0 == VerifyUrlExists(st.rs, web[j], lat)
          v == [v0 EXCEPT !.rs.checks =
                    Append(@, [service |-> config.service, candidate |-> j,
                               url |-> url, status |-> web[j], ok |-> v0.ok])]
          title == IF Contains(Lower(url), <<"a", "l", "b", "u", "m">>) \/ Contains(Lower(url), Lower(album))
                   THEN album \o <<" ", "e", "n", " ">> \o config.titled
                   ELSE artist \o <<" ", "e", "n", " ">> \o config.titled
          key == config.service \o <<"_">>
                 \o Digits(CategorySize(st.links, config.category))
      IN IF v.ok
         THEN [rs |-> v.rs,
               links |-> Update(st.links,
                                (<<config.category, key>> :>
                                   [url |-> url, title |-> title,
                                    source |-> config.service]))]
         ELSE VerifyService([st EXCEPT !.rs = v.rs], config, artist, album,
                            web, lat, j + 1)

\* The loop of _construct_verified_links over url_patterns[i..].
RECURSIVE VerifyServices(_, _, _, _, _, _, _)
VerifyServices(st, patterns, artist, album, web, lat, i) ==
    IF i > Len(patterns) THEN st
    ELSE VerifyServices(
            VerifyService(st, patterns[i], artist, album, web, lat, 1),
            patterns, artist, album, web, lat, i + 1)

\* _construct_verified_links
ConstructVerifiedLinks(rs0, artist, album, web, lat) ==
    VerifyServices([rs |-> Enter(rs0, "constructed", "done"), links |-> <<>>],
                   UrlPatterns(artist, album), artist, album, web, lat, 1)

\* What the local store holds (DatabaseManager.find_artist_links and
\* find_album_links): db_manager is
\*   "None"     no manager was given;
\*   "norow"    no row matches;
\*   "rows"     an artist row and an album row with links;
\*   "sqlerror" the query raises sqlite3.Error, which the manager catches;
\*   "badrow"   a URL column holds a number, so url.strip() raises
\*              AttributeError, which nothing catches.
DBStates == {"None", "norow", "rows", "sqlerror", "badrow"}

\* One entry of the dictionaries the manager returns.
DBLink(url, description) == [url |-> url, description |-> description]

ArtistLinks ==
    IF db_manager = "rows"
    THEN (<<"s", "p", "o", "t", "i", "f", "y">> :> DBLink(<<"d", "b", ":", "/", "/", "s", "p", "o", "t", "i", "f", "y">>,
                       <<"a", " ", "e", "n", " ", "S", "p", "o", "t", "i", "f", "y">>))
         @@ (<<"r", "a", "t", "e", "y", "o", "u", "r", "m", "u", "s", "i", "c">> :> DBLink(<<"d", "b", ":", "/", "/", "r", "y", "m">>,
                       <<"a", " ", "e", "n", " ", "R", "a", "t", "e", "y", "o", "u", "r", "m", "u", "s", "i", "c">>))
         @@ (<<"o", "f", "f", "i", "c", "i", "a", "l", "_", "w", "e", "b", "s", "i", "t", "e">> :> DBLink(<<"d", "b", ":", "/", "/", "w", "e", "b">>,
                       <<"a", " ", "e", "n", " ", "O", "f", "f", "i", "c", "i", "a", "l", " ", "W", "e", "b", "s", "i", "t", "e">>))
    ELSE <<>>

AlbumLinks ==
    IF db_manager = "rows"
    THEN (<<"s", "p", "o", "t", "i", "f", "y">> :> DBLink(<<"d", "b", ":", "/", "/", "a", "l", "b", "u", "m">>,
                       <<"e", " ", "e", "n", " ", "S", "p", "o", "t", "i", "f", "y">>))
         @@ (<<"m", "u", "s", "i", "c", "b", "r", "a", "i", "n", "z", "_", "a", "l", "b", "u", "m">> :> DBLink(<<"d", "b", ":", "/", "/", "r", "e", "l", "e", "a", "s", "e">>,
                       <<"M", "u", "s", "i", "c", "B", "r", "a", "i", "n", "z", " ", "-", " ", "e">>))
    ELSE <<>>

\* _search_database_links: no exception handler of its own.
SearchDatabaseLinks(rs0) ==
    LET outcome == CASE db_manager = "rows" -> "found"
                     [] db_manager = "sqlerror" -> "error"
                     [] db_manager = "badrow" -> "raise"
                     [] OTHER -> "empty"
        rs1 == Enter(rs0, "database", outcome)
        fromArtist == [k \in {<<categorize_link(t), t>> : t \in DOMAIN ArtistLinks} |->
                          [url |-> ArtistLinks[k[2]].url,
                           title |-> ArtistLinks[k[2]].description,
                           source |-> <<"d", "a", "t", "a", "b", "a", "s", "e">>]]
        fromAlbum == [k \in {<<categorize_link(t), <<"a", "l", "b", "u", "m", "_">> \o t>> : t \in DOMAIN AlbumLinks} |->
                          LET t == SubSeq(k[2], 7, Len(k[2]))
                          IN [url |-> AlbumLinks[t].url,
                              title |-> AlbumLinks[t].description,
                              source |-> <<"d", "a", "t", "a", "b", "a", "s", "e">>]]
    IN IF db_manager = "badrow"
       THEN [rs |-> [rs1 EXCEPT !.raised = TRUE], links |-> <<>>]
       ELSE [rs |-> rs1, links |-> Update(fromArtist, fromAlbum)]

\* A chain that stops at the local store when it has links.
ShortCircuitLinksChain(rs0, artist, album, web, lat) ==
    LET d == IF db_manager # "None" THEN SearchDatabaseLinks(rs0)
             ELSE [rs |-> rs0, links |-> <<>>]
    IN IF d.rs.raised \/ d.links # <<>> THEN d
       ELSE LET c == ConstructVerifiedLinks(d.rs, artist, album, web, lat)
            IN [rs |-> c.rs, links |-> Update(d.links, c.links)]

\* A merge that replaces a whole category of the local store by the
\* constructed links of that category.
CategoryWiseLinksChain(rs0, artist, album, web, lat) ==
    LET d == IF db_manager # "None" THEN SearchDatabaseLinks(rs0)
             ELSE [rs |-> rs0, links |-> <<>>]
    IN IF d.rs.raised THEN d
       ELSE LET c == ConstructVerifiedLinks(d.rs, artist, album, web, lat)
                kept == {k \in DOMAIN d.links :
                            \A k2 \in DOMAIN c.links : k2[1] # k[1]}
            IN [rs |-> c.rs,
                links |-> Update([k \in kept |-> d.links[k]], c.links)]

\* The body of find_links after the cache test (lines 110-122).
LinksChain(rs0, artist, album, web, lat) ==
    LET d == IF db_manager # "None" THEN SearchDatabaseLinks(rs0)
             ELSE [rs |-> rs0, links |-> <<>>]
    IN IF d.rs.raised THEN d
       ELSE LET c == ConstructVerifiedLinks(d.rs, artist, album, web, lat)
            IN [rs |-> c.rs, links |-> Update(d.links, c.links)]

\* LinkFinder.find_links(artist, album, mbid)
FindLinks(artist, album, mbid, web, lat) ==
    /\ CanCall
    /\ LET cache_key == LinkCacheKey(artist, album, mbid)
           rs0 == NewRun(lnk_last_request_time, grants.links, sent.links)
       IN IF cache_key \in DOMAIN lnk_cache
          THEN /\ Record("find_links", <<artist, album, mbid>>, [web |-> web], TRUE, rs0,
                         lnk_cache[cache_key])
               /\ UNCHANGED <<now, lnkVars, sent>>
          ELSE \E p \in {LinksChain(rs0, artist, album, web, lat)} :
                  /\ sent' = [sent EXCEPT !.links = LastSent(p.rs)]
                  /\ lnk_cache' = IF p.rs.raised THEN lnk_cache
                                  ELSE Store(lnk_cache, cache_key, p.links)
                  /\ lnk_last_request_time' = p.rs.last
                  /\ now' = p.rs.now
                  /\ Record("find_links", <<artist, album, mbid>>, [web |-> web], FALSE, p.rs,
                            IF p.rs.raised THEN Raised ELSE p.links)
    /\ UNCHANGED <<imgVars, lyrVars, envVars, colVars, grants, catVars, imageVars,
                   thrVars, appVars>>

\* LinkFinder.verify_link(url): throttled HEAD request, True below 400.
VerifyLink(status, lat) ==
    /\ CanCall
    /\ \E rs1 \in {Request(RateLimit(NewRun(lnk_last_request_time, grants.links, sent.links),
                                      lnk_min_request_interval), lat)} :
          /\ lnk_last_request_time' = rs1.last
          /\ now' = rs1.now
          /\ grants' = [grants EXCEPT !.links = rs1.granted]
          /\ sent' = [sent EXCEPT !.links = LastSent(rs1)]
          /\ Record("verify_link", <<>>, [status |-> status], FALSE, rs1, status # 0 /\ status < 400)
    /\ UNCHANGED <<imgVars, lyrVars, lnk_cache, envVars, colVars, catVars, imageVars,
                   thrVars, appVars>>

(***************************************************************************)
(* Colours: enhanced_contrast.py and html_generator.py.                    *)
(* Luminance is kept in units of 1/10000 and a contrast ratio in units of  *)
(* 1/1000.                                                                 *)
(***************************************************************************)
\* to_linear(c / 255.0) for c = 0..255, times 10000 and rounded.
ToLinear ==
    <<
       0, 3, 6, 9, 12, 15, 18, 21, 24, 27, 30, 33, 37, 40, 44, 48,
       52, 56, 60, 65, 70, 75, 80, 86, 91, 97, 103, 110, 116, 123, 130, 137,
       144, 152, 160, 168, 176, 185, 194, 203, 212, 222, 232, 242, 252, 262, 273, 284,
       296, 307, 319, 331, 343, 356, 369, 382, 395, 409, 423, 437, 452, 467, 482, 497,
       513, 529, 545, 561, 578, 595, 612, 630, 648, 666, 685, 704, 723, 742, 762, 782,
       802, 823, 844, 865, 887, 908, 931, 953, 976, 999, 1022, 1046, 1070, 1095, 1119, 1144,
       1170, 1195, 1221, 1248, 1274, 1301, 1329, 1356, 1384, 1413, 1441, 1470, 1500, 1529, 1559, 1590,
       1620, 1651, 1683, 1714, 1746, 1779, 1812, 1845, 1878, 1912, 1946, 1981, 2016, 2051, 2086, 2122,
       2159, 2195, 2232, 2270, 2307, 2346, 2384, 2423, 2462, 2502, 2542, 2582, 2623, 2664, 2705, 2747,
       2789, 2831, 2874, 2918, 2961, 3005, 3050, 3095, 3140, 3185, 3231, 3278, 3325, 3372, 3419, 3467,
       3515, 3564, 3613, 3663, 3712, 3763, 3813, 3864, 3916, 3968, 4020, 4072, 4125, 4179, 4233, 4287,
       4342, 4397, 4452, 4508, 4564, 4621, 4678, 4735, 4793, 4851, 4910, 4969, 5029, 5089, 5149, 5210,
       5271, 5333, 5395, 5457, 5520, 5583, 5647, 5711, 5776, 5841, 5906, 5972, 6038, 6105, 6172, 6240,
       6308, 6376, 6445, 6514, 6584, 6654, 6724, 6795, 6867, 6939, 7011, 7084, 7157, 7231, 7305, 7379,
       7454, 7529, 7605, 7682, 7758, 7835, 7913, 7991, 8070, 8148, 8228, 8308, 8388, 8469, 8550, 8632,
       8714, 8796, 8879, 8963, 9047, 9131, 9216, 9301, 9387, 9473, 9560, 9647, 9734, 9823, 9911, 10000
    >>

to_linear(c) == ToLinear[c + 1]

\* calculate_luminance: 0.2126 r + 0.7152 g + 0.0722 b of the linear channels.
calculate_luminance(rgb) ==
    (2126 * to_linear(rgb[1]) + 7152 * to_linear(rgb[2])
       + 722 * to_linear(rgb[3]) + 5000) \div 10000

\* calculate_contrast_ratio: (lighter + 0.05) / (darker + 0.05)
calculate_contrast_ratio(color1, color2) ==
    LET lum1 == calculate_luminance(color1)
        lum2 == calculate_luminance(color2)
        hi == IF lum1 < lum2 THEN lum2 ELSE lum1
        lo == IF lum1 < lum2 THEN lum1 ELSE lum2
    IN ((hi + 500) * 1000) \div (lo + 500)

white == <<255, 255, 255>>
black == <<0, 0, 0>>
light_gray == <<240, 240, 240>>
dark_gray == <<40, 40, 40>>

\* The WCAG AA threshold 4.5.
AA == 4500

\* max(contrasts, key=...): the first pair with the greatest contrast.
MaxByContrast(contrasts) ==
    LET best == CHOOSE i \in 1..Len(contrasts) :
                    /\ \A j \in 1..Len(contrasts) : contrasts[j][1] <= contrasts[i][1]
                    /\ \A j \in 1..(i - 1) : contrasts[j][1] < contrasts[i][1]
    IN contrasts[best][2]

\* A text colour chosen without looking at the background.
AlwaysLightGray(background_color) == light_gray

\* enhanced_contrast.get_optimal_text_color
get_optimal_text_color(background_color) ==
    LET white_contrast == calculate_contrast_ratio(background_color, white)
        black_contrast == calculate_contrast_ratio(background_color, black)
        light_gray_contrast == calculate_contrast_ratio(background_color, light_gray)
        dark_gray_contrast == calculate_contrast_ratio(background_color, dark_gray)
    IN IF white_contrast >= AA THEN white
       ELSE IF black_contrast >= AA THEN black
       ELSE IF light_gray_contrast >= AA THEN light_gray
       ELSE IF dark_gray_contrast >= AA THEN dark_gray
       ELSE MaxByContrast(<< <<white_contrast, white>>, <<black_contrast, black>>,
                             <<light_gray_contrast, light_gray>>,
                             <<dark_gray_contrast, dark_gray>> >>)

\* The text colour of html_generator with the stricter threshold 7.0.
HtmlThresholdSeven(background_color) ==
    LET bg_luminance == calculate_luminance(background_color)
        white_contrast == ((calculate_luminance(white) + 500) * 1000)
                              \div (bg_luminance + 500)
        black_contrast == ((bg_luminance + 500) * 1000)
                              \div (calculate_luminance(black) + 500)
    IN IF white_contrast > black_contrast
       THEN (IF white_contrast >= 7000 THEN white ELSE light_gray)
       ELSE (IF black_contrast >= 7000 THEN black ELSE dark_gray)

\* html_generator.get_optimal_text_color
html_get_optimal_text_color(background_color) ==
    LET bg_luminance == calculate_luminance(background_color)
        white_contrast == ((calculate_luminance(white) + 500) * 1000)
                              \div (bg_luminance + 500)
        black_contrast == ((bg_luminance + 500) * 1000)
                              \div (calculate_luminance(black) + 500)
    IN IF white_contrast > black_contrast
       THEN (IF white_contrast >= AA THEN white ELSE light_gray)
       ELSE (IF black_contrast >= AA THEN black ELSE dark_gray)

\* get_secondary_text_color
get_secondary_text_color(background_color) ==
    LET primary_color == get_optimal_text_color(background_color)
        Dim(c) == IF c - 80 < 0 THEN 0 ELSE c - 80
        Lift(c) == IF c + 80 > 255 THEN 255 ELSE c + 80
    IN IF primary_color[1] + primary_color[2] + primary_color[3] > 400
       THEN [i \in 1..3 |-> Dim(primary_color[i])]
       ELSE [i \in 1..3 |-> Lift(primary_color[i])]

HexDigits ==
    <<"0", "1", "2", "3", "4", "5", "6", "7", "8", "9", "a", "b", "c", "d", "e", "f">>

\* rgb_to_hex: "#" and two lower-case hex digits per channel.
rgb_to_hex(rgb) ==
    <<"#", HexDigits[rgb[1] \div 16 + 1], HexDigits[(rgb[1] % 16) + 1],
           HexDigits[rgb[2] \div 16 + 1], HexDigits[(rgb[2] % 16) + 1],
           HexDigits[rgb[3] \div 16 + 1], HexDigits[(rgb[3] % 16) + 1]>>

\* int(digit, 16)
HexValue(d) == (CHOOSE i \in 1..16 : HexDigits[i] = d) - 1

\* hex_to_rgb
hex_to_rgb(hex_color) ==
    LET h == IF hex_color # <<>> /\ Head(hex_color) = "#" THEN Tail(hex_color)
             ELSE hex_color
    IN [i \in 1..3 |-> 16 * HexValue(h[2 * i - 1]) + HexValue(h[2 * i])]

Max3(rgb) == CHOOSE m \in {rgb[1], rgb[2], rgb[3]} :
                 \A i \in 1..3 : rgb[i] <= m
Min3(rgb) == CHOOSE m \in {rgb[1], rgb[2], rgb[3]} :
                 \A i \in 1..3 : rgb[i] >= m

\* The primary colour of both palette builders:
\*   h, s, v = rgb_to_hsv(r/255, g/255, b/255)
\*   hsv_to_rgb(h, min(1.0, s * 1.1), min(1.0, v * 0.85)), each channel int(c * 255)
\* in exact arithmetic.  With M = max, d = M - min, the hue is sector + fn/d
\* sixths, s * 1.1 = 11 d / (10 M) and 255 * v * 0.85 = 17 M / 20, so
\*   v = 17 M / 20, p = v (1 - s), q = v (1 - s f), t = v (1 - s (1 - f)).
\* Where the exact value of a channel is a whole number the floating-point
\* code can land one level below it; on the 16-step grid of Colors the two
\* agree on every colour.
PrimaryColor(dominant) ==
    LET r == dominant[1]
        g == dominant[2]
        b == dominant[3]
        M == Max3(dominant)
        d == M - Min3(dominant)
        six == IF r = M THEN (g - b) % (6 * d)
               ELSE IF g = M THEN (2 * d + b - r) % (6 * d)
               ELSE (4 * d + r - g) % (6 * d)
        i == six \div d
        fn == six % d
        full == 11 * d >= 10 * M
        v == (17 * M) \div 20
        p == IF full THEN 0 ELSE (17 * (10 * M - 11 * d)) \div 200
        q == IF full THEN (17 * M * (d - fn)) \div (20 * d)
             ELSE (17 * (10 * M - 11 * fn)) \div 200
        t == IF full THEN (17 * M * fn) \div (20 * d)
             ELSE (17 * (10 * M - 11 * (d - fn))) \div 200
    IN IF d = 0 THEN <<v, v, v>>
       ELSE CASE i = 0 -> <<v, t, p>>
              [] i = 1 -> <<q, v, p>>
              [] i = 2 -> <<p, v, t>>
              [] i = 3 -> <<p, q, v>>
              [] i = 4 -> <<t, p, v>>
              [] OTHER -> <<v, p, q>>

NoPalette == [builder |-> "none"]

\* enhanced_contrast.create_enhanced_color_palette(dominant_color); the
\* secondary background and the accent are left out.
CreateEnhancedColorPalette ==
    /\ LET primary_color == PrimaryColor(dominant_color)
           primary_text == get_optimal_text_color(primary_color)
           secondary_text == get_secondary_text_color(primary_color)
       IN palette' = [builder |-> "create_enhanced_color_palette",
                      dominant |-> dominant_color,
                      background_primary |-> rgb_to_hex(primary_color),
                      text_primary |-> rgb_to_hex(primary_text),
                      text_secondary |-> rgb_to_hex(secondary_text),
                      text_contrast_ratio |->
                          calculate_contrast_ratio(primary_color, primary_text)]
    /\ UNCHANGED <<now, imgVars, lyrVars, lnkVars, envVars, histVars,
                 dominant_color, catVars, imageVars, thrVars, appVars>>

\* HTMLGenerator._create_optimized_palette(dominant_color); the secondary
\* colour and the accent are left out.
CreateOptimizedPalette ==
    /\ LET primary_color == PrimaryColor(dominant_color)
           text_color == html_get_optimal_text_color(primary_color)
       IN palette' = [builder |-> "_create_optimized_palette",
                      dominant |-> dominant_color,
                      background_primary |-> rgb_to_hex(primary_color),
                      text_primary |-> rgb_to_hex(text_color)]
    /\ UNCHANGED <<now, imgVars, lyrVars, lnkVars, envVars, histVars,
                 dominant_color, catVars, imageVars, thrVars, appVars>>

\* The dominant colour of a cover.  An image is what Image.resize and
\* convert('RGB') hand to the scan: its pixels, or no pixels at all when the
\* file cannot be fetched, opened or decoded.
NoImage == [decoded |-> FALSE, pixels |-> <<>>]
NotExtracted == [by |-> "none", color |-> None, via |-> "none"]

\* (c // 10) * 10 on each channel
Quantize(pixel) ==
    <<(pixel[1] \div 10) * 10, (pixel[2] \div 10) * 10, (pixel[3] \div 10) * 10>>

grouped_colors(pixels) == [i \in 1..Len(pixels) |-> Quantize(pixels[i])]

\* Counter(grouped).most_common(n): the distinct colours by falling count,
\* colours of equal count in the order of their first occurrence.
TopColors == 20

most_common(grouped, n) ==
    LET colors == {grouped[i] : i \in 1..Len(grouped)}
        count(c) == Cardinality({i \in 1..Len(grouped) : grouped[i] = c})
        firstAt(c) == CHOOSE i \in 1..Len(grouped) :
                         /\ grouped[i] = c
                         /\ \A j \in 1..(i - 1) : grouped[j] # c
        before(d, c) == \/ count(d) > count(c)
                        \/ count(d) = count(c) /\ firstAt(d) < firstAt(c)
        rank(c) == Cardinality({d \in colors : before(d, c)}) + 1
        size == IF Cardinality(colors) < n THEN Cardinality(colors) ELSE n
    IN [r \in 1..size |-> CHOOSE c \in colors : rank(c) = r]

\* A test that lets every colour darker than 100 pass, near-black included.
DarkAlwaysPasses(color) ==
    LET sum == color[1] + color[2] + color[3]
    IN \/ /\ 60 < sum /\ sum < 705
          /\ Max3(color) > 0
          /\ (Max3(color) - Min3(color)) * 10 > Max3(color)
       \/ sum < 300

\* The filter of the scan: 20 < brightness < 235, and inside it
\* saturation > 0.1 or brightness < 100.  brightness is (r + g + b) / 3 and
\* saturation (max - min) / max, 0 for black; both compared exactly.
Passes(color) ==
    LET sum == color[1] + color[2] + color[3]
        saturated == /\ Max3(color) > 0
                     /\ (Max3(color) - Min3(color)) * 10 > Max3(color)
    IN /\ 60 < sum /\ sum < 705
       /\ saturated \/ sum < 300

\* tuple(int(c) for c in ImageStat.Stat(img).mean)
Sum(pixels, ch) ==
    LET RECURSIVE Upto(_)
        Upto(i) == IF i = 0 THEN 0 ELSE pixels[i][ch] + Upto(i - 1)
    IN Upto(Len(pixels))

ImageMean(pixels) ==
    <<Sum(pixels, 1) \div Len(pixels), Sum(pixels, 2) \div Len(pixels),
      Sum(pixels, 3) \div Len(pixels)>>

\* The scan of both extractions: the first of the most common colours that
\* passes the filter, else the mean of the image.
ScanOrMean(pixels) ==
    LET top == most_common(grouped_colors(pixels), TopColors)
        passing == {r \in 1..Len(top) : Passes(top[r])}
    IN IF passing # {}
       THEN [color |-> top[CHOOSE r \in passing : \A q \in passing : r <= q],
             via |-> "scan"]
       ELSE [color |-> ImageMean(pixels), via |-> "mean"]

\* ColorAnalyzer.extract_dominant_color: the except clause returns a dark gray.
extract_dominant_color(img) ==
    IF ~img.decoded
    THEN [by |-> "ColorAnalyzer", color |-> <<80, 80, 80>>, via |-> "except"]
    ELSE [by |-> "ColorAnalyzer"] @@ ScanOrMean(img.pixels)

\* HTMLGenerator._extract_dominant_color_from_image: a missing file and the
\* except clause return None.
extract_dominant_color_from_image(img) ==
    IF ~img.decoded
    THEN [by |-> "HTMLGenerator", color |-> None, via |-> "except"]
    ELSE [by |-> "HTMLGenerator"] @@ ScanOrMean(img.pixels)

ExtractDominantColor ==
    /\ extracted' = extract_dominant_color(image)
    /\ UNCHANGED <<now, imgVars, lyrVars, lnkVars, envVars, colVars, histVars,
                   catVars, image, thrVars, appVars>>

ExtractDominantColorFromImage ==
    /\ extracted' = extract_dominant_color_from_image(image)
    /\ UNCHANGED <<now, imgVars, lyrVars, lnkVars, envVars, colVars, histVars,
                   catVars, image, thrVars, appVars>>

\* Callers that share one ImageFinder and one LyricsFinder.  Neither lookup
\* takes a lock, so another caller can run between the cache test, the
\* provider chain and the store of one caller.
MaxThreads == 2
Threads == 1..MaxThreads

Idle == [pc |-> "idle", op |-> "none", key |-> <<>>, local |-> None]

\* One more run of the provider chain for a key.
Count(key) ==
    IF key \in DOMAIN chains
    THEN [chains EXCEPT ![key] = @ + 1]
    ELSE (key :> 1) @@ chains

\* "if cache_key in cache: return cache[cache_key]"
TestCache(t, op, c, cache_key) ==
    /\ threads[t].pc = "idle"
    /\ threads' = [threads EXCEPT ![t] =
          IF cache_key \in DOMAIN c
          THEN [pc |-> "done", op |-> op, key |-> cache_key, local |-> c[cache_key]]
          ELSE [pc |-> "chain", op |-> op, key |-> cache_key, local |-> None]]

\* find_album_image, lines 81-83
AlbumTestCache(t, artist, album) ==
    /\ TestCache(t, "find_album_image", cache, AlbumCacheKey(artist, album))
    /\ UNCHANGED <<now, imgVars, lyrVars, lnkVars, envVars, colVars, histVars,
                   catVars, imageVars, chains, appVars>>

\* find_album_image, lines 85-99: the three providers
AlbumRunChain(t, mb, dg, lat) ==
    /\ threads[t].pc = "chain" /\ threads[t].op = "find_album_image"
    /\ \E p \in {AlbumImageChain(NewRun(last_request_time, grants.image, sent.image),
                                  mb, dg, lat)} :
          /\ threads' = [threads EXCEPT ![t].pc = "store", ![t].local = p.result]
          /\ last_request_time' = p.rs.last
          /\ now' = p.rs.now
    /\ chains' = Count(threads[t].key)
    /\ UNCHANGED <<cache, spotify_token, spotify_token_expires, lyrVars, lnkVars,
                   envVars, colVars, histVars, catVars, imageVars, appVars>>

\* find_album_image, lines 101-102
AlbumStore(t) ==
    /\ threads[t].pc = "store" /\ threads[t].op = "find_album_image"
    /\ cache' = Store(cache, threads[t].key, threads[t].local)
    /\ threads' = [threads EXCEPT ![t].pc = "done"]
    /\ UNCHANGED <<now, last_request_time, spotify_token, spotify_token_expires,
                   lyrVars, lnkVars, envVars, colVars, histVars, catVars,
                   imageVars, chains, appVars>>

\* _search_lyrics, lines 81-83
LyricsTestCache(t, artist, title) ==
    /\ TestCache(t, "_search_lyrics", lyr_cache, LyricsCacheKey(artist, title))
    /\ UNCHANGED <<now, imgVars, lyrVars, lnkVars, envVars, colVars, histVars,
                   catVars, imageVars, chains, appVars>>

\* _search_lyrics, lines 85-96: the three providers
LyricsRunChain(t, ovh, lat) ==
    /\ threads[t].pc = "chain" /\ threads[t].op = "_search_lyrics"
    /\ \E p \in {LyricsChain(NewRun(lyr_last_request_time, grants.lyrics, sent.lyrics),
                              ovh, lat)} :
          /\ threads' = [threads EXCEPT ![t].pc = "store", ![t].local = p.result]
          /\ lyr_last_request_time' = p.rs.last
          /\ now' = p.rs.now
    /\ chains' = Count(threads[t].key)
    /\ UNCHANGED <<imgVars, lyr_cache, lnkVars, envVars, colVars, histVars,
                   catVars, imageVars, appVars>>

\* _search_lyrics, lines 98-99
LyricsStore(t) ==
    /\ threads[t].pc = "store" /\ threads[t].op = "_search_lyrics"
    /\ lyr_cache' = Store(lyr_cache, threads[t].key, threads[t].local)
    /\ threads' = [threads EXCEPT ![t].pc = "done"]
    /\ UNCHANGED <<now, imgVars, lyr_last_request_time, lnkVars, envVars, colVars,
                   histVars, catVars, imageVars, chains, appVars>>

\* AlbumWebGenerator.process_album: the calls of its stages in order.  fails
\* tells which calls raise; st carries the calls made, the keys of album_info
\* that were set and whether an exception is on its way out.
NotProcessed == [fails |-> <<>>, ran |-> <<>>, keys |-> {}, raised |-> FALSE]

StageCalls ==
    {"extract_album_info", "get_user_comment", "find_album_image",
     "find_artist_image", "find_lyrics", "find_links", "_generate_web_files"}

\* The key of album_info a call assigns.
KeyOf(name) ==
    CASE name = "get_user_comment" -> {"user_comment"}
      [] name = "find_album_image" -> {"album_image"}
      [] name = "find_artist_image" -> {"artist_image"}
      [] name = "find_lyrics" -> {"lyrics"}
      [] name = "find_links" -> {"links"}
      [] OTHER -> {}

\* Statements in sequence: the calls names[i..] until one raises.
RECURSIVE RunCalls(_, _, _, _)
RunCalls(st, names, fails, i) ==
    IF i > Len(names) \/ st.raised THEN st
    ELSE RunCalls([st EXCEPT !.ran = Append(@, names[i]),
                             !.keys = IF fails[names[i]] THEN @ ELSE @ \cup KeyOf(names[i]),
                             !.raised = fails[names[i]]],
                  names, fails, i + 1)

\* A block whose exception leaves the function.
Propagating(st, names, fails, handler_keys) ==
    IF st.raised THEN st ELSE RunCalls(st, names, fails, 1)

\* try: names ... except Exception: log (and set handler_keys)
TryExcept(st, names, fails, handler_keys) ==
    IF st.raised THEN st
    ELSE LET r == RunCalls(st, names, fails, 1)
         IN IF r.raised
            THEN [r EXCEPT !.raised = FALSE, !.keys = @ \cup handler_keys]
            ELSE r

\* Statements outside any try, and try: ... except: log; raise
Unguarded(st, names, fails) ==
    IF st.raised THEN st ELSE RunCalls(st, names, fails, 1)

process_album(fails) ==
    LET s1 == Unguarded([fails |-> fails, ran |-> <<>>, keys |-> {}, raised |-> FALSE],
                        <<"extract_album_info">>, fails)
        s2 == TryExcept(s1, <<"get_user_comment">>, fails, {"user_comment"})
        s3 == TryExcept(s2, <<"find_album_image", "find_artist_image">>, fails, {})
        s4 == TryExcept(s3, <<"find_lyrics">>, fails, {})
        s5 == TryExcept(s4, <<"find_links">>, fails, {})
    IN Unguarded(s5, <<"_generate_web_files">>, fails)

ProcessAlbum(fails) ==
    /\ processed' = process_album(fails)
    /\ UNCHANGED <<now, imgVars, lyrVars, lnkVars, envVars, colVars, histVars,
                   catVars, imageVars, thrVars, albums_data, last_entry, nfc>>

(***************************************************************************)
(* The card monitor, nfc/nfc_reaccionar.py.  Its clock counts half seconds. *)
(***************************************************************************)
\* The keys of TARJETAS_CONFIG and the cards that can lie on the reader.
TARJETAS_CONFIG == {"B2BA9C1E", "YYYYYYYY", "ZZZZZZZZ"}
Cards == {"B2BA9C1E", "YYYYYYYY", "FFFFFFFF"}

\* The 3 seconds of the repetition test and the time.sleep(0.5) of the loop.
DebounceTicks == 6
SleepTicks == 1

NoDispatch == [uid |-> "None", at |-> 0, since |-> 0, first |-> TRUE]

\* The monitor before its first pass through the loop; time.time() is far
\* beyond 3 seconds.
NfcStart ==
    [time |-> DebounceTicks + 1, ultima_tarjeta |-> "None",
     tiempo_ultima_lectura |-> 0,
     executed |-> [u \in TARJETAS_CONFIG |-> 0], latest |-> NoDispatch]

\* The repetition test of line 68.
NotRepeated(st, uid, tiempo_actual) ==
    \/ uid # st.ultima_tarjeta
    \/ tiempo_actual - st.tiempo_ultima_lectura > DebounceTicks

\* One pass of the loop with a card answering 90 00; the pass, the command
\* included, takes elapsed ticks.
read_card(st, uid, elapsed) ==
    LET tiempo_actual == st.time
        handled == [st EXCEPT !.ultima_tarjeta = uid,
                              !.tiempo_ultima_lectura = tiempo_actual]
        run == [handled EXCEPT
                   !.executed[uid] = tiempo_actual,
                   !.latest = [uid |-> uid, at |-> tiempo_actual,
                               since |-> tiempo_actual - st.executed[uid],
                               first |-> st.executed[uid] = 0]]
        after == IF ~NotRepeated(st, uid, tiempo_actual) THEN st
                 ELSE IF uid \in TARJETAS_CONFIG THEN run
                 ELSE handled
    IN [after EXCEPT !.time = st.time + elapsed]

ReadCard(uid, elapsed) ==
    /\ nfc.time + elapsed <= MaxNfcTime
    /\ nfc' = read_card(nfc, uid, elapsed)
    /\ UNCHANGED <<now, imgVars, lyrVars, lnkVars, envVars, colVars, histVars,
                   catVars, imageVars, thrVars, processed, albums_data, last_entry>>

\* One pass without a card, or with another status word.
NoCard(elapsed) ==
    /\ nfc.time + elapsed <= MaxNfcTime
    /\ nfc' = [nfc EXCEPT !.time = @ + elapsed]
    /\ UNCHANGED <<now, imgVars, lyrVars, lnkVars, envVars, colVars, histVars,
                   catVars, imageVars, thrVars, processed, albums_data, last_entry>>

(***************************************************************************)
(* The album index, albums-data.json.                                      *)
(***************************************************************************)
NoEntry == [entry |-> None, before |-> <<>>]

\* album_info.get(key, default): NoneText stands for a missing key.
GetOr(value, default) == IF value = NoneText THEN default ELSE value

\* album_entry; the fields that take no part in the search are left out but
\* for the file name.
album_entry(album_info, filename) ==
    [filename |-> filename \o <<".", "h", "t", "m", "l">>,
     title |-> GetOr(album_info.title, <<"A", "^", "l", "b", "u", "m", " ", "D", "e", "s", "c", "o", "n", "o", "c", "i", "d", "o">>),
     artist |-> GetOr(album_info.artist, <<"A", "r", "t", "i", "s", "t", "a", " ", "D", "e", "s", "c", "o", "n", "o", "c", "i", "d", "o">>)]

\* The loop of lines 520-524 from position i: the first entry with the
\* artist and the title of album_entry, 0 for None.
RECURSIVE existing_index(_, _, _)
existing_index(data, entry, i) ==
    IF i > Len(data) THEN 0
    ELSE IF data[i].artist = entry.artist /\ data[i].title = entry.title THEN i
    ELSE existing_index(data, entry, i + 1)

\* An index that never looks for the album.
AlwaysAppend(data, album_info, filename) ==
    Append(data, album_entry(album_info, filename))

\* _update_albums_index: the list that is written back.
update_albums_index(data, album_info, filename) ==
    LET entry == album_entry(album_info, filename)
        found == existing_index(data, entry, 1)
    IN IF found # 0 THEN [data EXCEPT ![found] = entry]
       ELSE Append(data, entry)

UpdateAlbumsIndex(album_info, filename) ==
    /\ Len(albums_data) < MaxAlbums
    /\ albums_data' = update_albums_index(albums_data, album_info, filename)
    /\ last_entry' = [entry |-> album_entry(album_info, filename),
                      before |-> albums_data]
    /\ UNCHANGED <<now, imgVars, lyrVars, lnkVars, envVars, colVars, histVars,
                   catVars, imageVars, thrVars, processed, nfc>>

\* Time passing between two calls.
Tick ==
    /\ now < TicksPerUnit + MaxTime
    /\ now' = now + 1
    /\ UNCHANGED <<imgVars, lyrVars, lnkVars, envVars, colVars, histVars, catVars,
                   imageVars, thrVars, appVars>>

(***************************************************************************)
(* Inputs and specifications.                                              *)
(***************************************************************************)
Artists == {<<>>, <<"a">>, <<"A">>, <<"a^">>}
LinkArtists == {<<"a">>, <<"A">>}
Albums == {<<"e">>}
Titles == {<<"t">>, <<"T">>}
Mbids == {NoneText, <<"m">>}
Instant == {0}
Latencies == 0..MaxLatency

NoCall ==
    [op |-> "none", args |-> <<>>, world |-> <<>>, hit |-> FALSE, repeat |-> FALSE,
     invoked |-> <<>>, outcomes |-> <<>>, requests |-> 0, acq |-> <<>>,
     sent |-> <<>>, checks |-> <<>>, token_log |-> <<>>,
     raised |-> FALSE, result |-> None, cached |-> FALSE]

\* The clock starts late enough for the first request not to wait.
InitResolvers ==
    /\ now = TicksPerUnit
    /\ HAS_MUSICBRAINZ \in BOOLEAN
    /\ cache = <<>>
    /\ last_request_time = 0
    /\ spotify_client_id \in BOOLEAN
    /\ spotify_client_secret \in BOOLEAN
    /\ spotify_token = "None"
    /\ spotify_token_expires = 0
    /\ lyr_cache = <<>>
    /\ lyr_last_request_time = 0
    /\ db_manager \in DBStates
    /\ lnk_cache = <<>>
    /\ lnk_last_request_time = 0
    /\ call = NoCall
    /\ first = <<>>
    /\ grants = [image |-> 0, lyrics |-> 0, links |-> 0]
    /\ sent = [image |-> <<>>, lyrics |-> <<>>, links |-> <<>>]
    /\ ncalls = 0
    /\ palette = NoPalette
    /\ the_category = "unset"
    /\ extracted = NotExtracted
    /\ threads = [t \in Threads |-> Idle]
    /\ chains = <<>>
    /\ processed = NotProcessed
    /\ last_entry = NoEntry
    /\ nfc = NfcStart

Init ==
    /\ InitResolvers
    /\ albums_data = <<>>
    /\ dominant_color = black
    /\ the_link_type = <<>>
    /\ image = NoImage

\* find_album_image alone: the module flag is the only setting it reads.
InitAlbum ==
    Init /\ ~spotify_client_id /\ ~spotify_client_secret /\ db_manager = "None"

NextAlbum ==
    \E artist \in Artists, album \in Albums, mb \in MBAlbumOutcomes,
       dg \in DiscogsOutcomes, lat \in Instant :
       FindAlbumImage(artist, album, mb, dg, lat)

SpecAlbum == InitAlbum /\ [][NextAlbum]_vars

\* _search_lyrics and find_lyrics: LyricsFinder reads no setting.
InitLyrics ==
    Init /\ HAS_MUSICBRAINZ /\ ~spotify_client_id /\ ~spotify_client_secret
         /\ db_manager = "None"

Tracks(t, other) ==
    { << [title |-> t] >>,
      << [title |-> t], [title |-> <<>>], [title |-> UNTITLED] >>,
      << [title |-> t, artist |-> other], [title |-> t] >>,
      << [artist |-> other] >> }

TrackLists == Tracks(<<"t">>, <<"A">>)

NextLyrics ==
    \/ \E artist \in Artists, title \in Titles, ovh \in OvhOutcomes, lat \in Instant :
          SearchLyrics(artist, title, ovh, lat)
    \/ \E tracks \in TrackLists, ovh \in OvhOutcomes, lat \in Instant :
          FindLyrics(<<"a">>, tracks, [i \in 1..Len(tracks) |-> ovh], lat)

SpecLyrics == InitLyrics /\ [][NextLyrics]_vars

\* find_links: the local store is the setting that matters.
InitLinks ==
    Init /\ HAS_MUSICBRAINZ /\ ~spotify_client_id /\ ~spotify_client_secret

\* What the web answers to the first and to the second candidate of a service.
Webs == {<<200, 200>>, <<404, 301>>, <<0, 302>>, <<500, 0>>}

NextLinks ==
    \E artist \in LinkArtists, album \in Albums, mbid \in Mbids, web \in Webs,
       lat \in Instant :
       FindLinks(artist, album, mbid, web, lat)

SpecLinks == InitLinks /\ [][NextLinks]_vars

\* The three throttles under a moving clock and slow requests.
InitClock ==
    Init /\ HAS_MUSICBRAINZ /\ ~spotify_client_id /\ ~spotify_client_secret
         /\ db_manager = "None"

NextClock ==
    \/ Tick
    \/ \E mb \in {"found", "no_release"}, lat \in Latencies :
          FindAlbumImage(<<"a">>, <<"e">>, mb, "empty", lat)
    \/ \E ovh \in {"found", "empty"}, lat \in Latencies :
          SearchLyrics(<<"a">>, <<"t">>, ovh, lat)
    \/ \E web \in {<<200, 200>>, <<0, 404>>}, lat \in Latencies :
          FindLinks(<<"a">>, <<"e">>, NoneText, web, lat)
    \/ \E status \in {200, 404}, lat \in Latencies :
          VerifyLink(status, lat)

SpecClock == InitClock /\ [][NextClock]_vars

\* The two image operations and the lyrics lookup on one set of instances.
InitCache == Init /\ db_manager = "None"

\* What the remote side can offer to find_artist_image; a field that cannot
\* matter takes one value.
ArtistScenarios ==
    {w \in [db : BOOLEAN, dbo : DBImageOutcomes, mb : MBArtistOutcomes,
            sp : {"found", "empty"},
            tok : {[ok |-> FALSE, expiry_given |-> FALSE, expires_in |-> 0],
                   [ok |-> TRUE, expiry_given |-> TRUE,
                    expires_in |-> TokenMargin + 1]}] :
        /\ ~w.db => w.dbo = "empty"
        /\ (w.db /\ w.dbo = "found") => w.mb = "empty"
        /\ w.mb = "found" => ~w.tok.ok
        /\ ~w.tok.ok => w.sp = "empty"}

NextCache ==
    \/ \E mb \in {"found", "no_release", "error"}, dg \in DiscogsOutcomes,
          lat \in Instant :
          FindAlbumImage(<<"a">>, <<"e">>, mb, dg, lat)
    \/ \E w \in ArtistScenarios, lat \in Instant :
          FindArtistImage(<<"a">>, w.db, w.dbo, w.mb, w.sp, w.tok, lat)
    \/ \E ovh \in OvhOutcomes, lat \in Instant :
          SearchLyrics(<<"a">>, <<"t">>, ovh, lat)

SpecCache == InitCache /\ [][NextCache]_vars

\* The three caches on one set of instances: the operations of SpecCache and
\* the link lookup.
NextStore ==
    \/ NextCache
    \/ \E web \in {<<200, 200>>, <<404, 0>>}, lat \in Instant :
          FindLinks(<<"a">>, <<"e">>, NoneText, web, lat)

SpecStore == InitCache /\ [][NextStore]_vars

\* The two palette builders over a grid of dominant colours.
Levels == {(k * 255) \div MaxLevel : k \in 0..MaxLevel}
Colors == Levels \X Levels \X Levels

InitColor ==
    /\ InitResolvers
    /\ albums_data = <<>>
    /\ HAS_MUSICBRAINZ /\ ~spotify_client_id /\ ~spotify_client_secret
    /\ db_manager = "None"
    /\ dominant_color \in Colors
    /\ the_link_type = <<>>
    /\ image = NoImage

NextColor ==
    \/ CreateEnhancedColorPalette
    \/ CreateOptimizedPalette

SpecColor == InitColor /\ [][NextColor]_vars

\* _categorize_link over names of services, alone and joined in pairs.
ServiceNames ==
    {<<"T", "w", "i", "t", "t", "e", "r">>, <<"S", "p", "o", "t", "i", "f", "y">>, <<"W", "i", "k", "i", "p", "e", "d", "i", "a">>, <<"O", "f", "f", "i", "c", "i", "a", "l", " ", "W", "e", "b", "s", "i", "t", "e">>, <<"R", "a", "n", "d", "o", "m", "T", "h", "i", "n", "g">>,
     <<"F", "A", "C", "E", "B", "O", "O", "K">>, <<"b", "a", "n", "d", "c", "a", "m", "p">>, <<"l", "a", "s", "t", "f", "m">>, <<"h", "o", "m", "e", "p", "a", "g", "e">>, <<"r", "a", "t", "e", "y", "o", "u", "r", "m", "u", "s", "i", "c">>,
     <<"A", "p", "p", "l", "e", " ", "M", "u", "s", "i", "c">>, <<"G", "e", "n", "i", "u", "s">>, <<"t", "i", "k", "t", "o", "k">>, <<>>}

LinkTypes ==
    ServiceNames \cup {a \o <<"_">> \o b : a, b \in ServiceNames}

InitCategorize ==
    /\ InitResolvers
    /\ albums_data = <<>>
    /\ HAS_MUSICBRAINZ /\ ~spotify_client_id /\ ~spotify_client_secret
    /\ db_manager = "None"
    /\ dominant_color = black
    /\ the_link_type \in LinkTypes
    /\ image = NoImage

NextCategorize == CategorizeLink

SpecCategorize == InitCategorize /\ [][NextCategorize]_vars

\* The two colour extractions over covers of one to three pixels, and over a
\* cover that cannot be decoded.
Pixels ==
    {<<0, 0, 0>>, <<12, 14, 16>>, <<85, 85, 85>>, <<200, 200, 200>>,
     <<255, 0, 0>>, <<255, 255, 255>>}

MaxPixels == 3

Images ==
    {NoImage} \cup
    {[decoded |-> TRUE, pixels |-> p] :
        p \in UNION {[1..n -> Pixels] : n \in 1..MaxPixels}}

InitExtract ==
    /\ InitResolvers
    /\ albums_data = <<>>
    /\ HAS_MUSICBRAINZ /\ ~spotify_client_id /\ ~spotify_client_secret
    /\ db_manager = "None"
    /\ dominant_color = black
    /\ the_link_type = <<>>
    /\ image \in Images

NextExtract ==
    \/ ExtractDominantColor
    \/ ExtractDominantColorFromImage

SpecExtract == InitExtract /\ [][NextExtract]_vars

\* Two callers on one ImageFinder and one LyricsFinder, each making one call.
InitConcurrent ==
    Init /\ HAS_MUSICBRAINZ /\ ~spotify_client_id /\ ~spotify_client_secret
         /\ db_manager = "None"

NextConcurrent ==
    \E t \in Threads :
        \/ \E artist \in LinkArtists : AlbumTestCache(t, artist, <<"e">>)
        \/ \E mb \in {"found", "no_release"}, dg \in {"found", "empty"},
              lat \in Instant : AlbumRunChain(t, mb, dg, lat)
        \/ AlbumStore(t)
        \/ \E artist \in LinkArtists : LyricsTestCache(t, artist, <<"t">>)
        \/ \E ovh \in {"found", "empty"}, lat \in Instant :
              LyricsRunChain(t, ovh, lat)
        \/ LyricsStore(t)

SpecConcurrent == InitConcurrent /\ [][NextConcurrent]_vars

\* Queries whose fields contain the separator of the cache keys.
KeyArtists == {<<"a">>, <<"a", "_", "b">>}
KeyAlbums == {<<"c">>, <<"b", "_", "c">>}

InitKeys == InitLinks /\ db_manager = "None"

NextKeys ==
    \/ \E artist \in KeyArtists, album \in KeyAlbums, mb \in {"found", "no_release"},
          lat \in Instant :
          FindAlbumImage(artist, album, mb, "empty", lat)
    \/ \E artist \in KeyArtists, title \in KeyAlbums, ovh \in {"found", "empty"},
          lat \in Instant :
          SearchLyrics(artist, title, ovh, lat)
    \/ \E artist \in KeyArtists, album \in KeyAlbums, web \in {<<200, 200>>, <<404, 0>>},
          lat \in Instant :
          FindLinks(artist, album, NoneText, web, lat)

SpecKeys == InitKeys /\ [][NextKeys]_vars

\* The artist image of several artists with time passing in between, so
\* that _get_spotify_token is entered with and without a token, before and
\* after its expiry.
InitToken == Init /\ ~HAS_MUSICBRAINZ /\ db_manager = "None"

NextToken ==
    \/ \E artist \in {<<"a">>, <<"A">>}, sp \in {"found", "empty"}, tok \in TokenOutcomes,
          lat \in Latencies :
          FindArtistImage(artist, FALSE, "empty", "empty", sp, tok, lat)
    \/ Tick

SpecToken == InitToken /\ [][NextToken]_vars

\* The album index, starting from any index of up to two albums without
\* duplicates.
IndexArtists == {NoneText, <<"a">>, <<"A">>}
IndexTitles == {NoneText, <<"t">>}
IndexFiles == {<<"f">>, <<"g">>}
AlbumInfos == [artist : IndexArtists, title : IndexTitles]

NoDuplicates(data) ==
    \A i \in 1..Len(data), j \in 1..Len(data) :
       (data[i].artist = data[j].artist /\ data[i].title = data[j].title) => i = j

StartIndexes ==
    LET entries == {album_entry(info, <<"f">>) : info \in AlbumInfos}
    IN {data \in {<<>>} \cup {<<e>> : e \in entries}
                  \cup {<<e1, e2>> : e1 \in entries, e2 \in entries} :
           NoDuplicates(data)}

InitIndex ==
    /\ InitResolvers
    /\ albums_data \in StartIndexes
    /\ HAS_MUSICBRAINZ /\ ~spotify_client_id /\ ~spotify_client_secret
    /\ db_manager = "None"
    /\ dominant_color = black
    /\ the_link_type = <<>>
    /\ image = NoImage

NextIndex ==
    \E album_info \in AlbumInfos, filename \in IndexFiles :
       UpdateAlbumsIndex(album_info, filename)

SpecIndex == InitIndex /\ [][NextIndex]_vars

\* The card monitor with cards put on the reader and taken away.
InitNfc == InitKeys

NextNfc ==
    \/ \E uid \in Cards, elapsed \in SleepTicks..MaxElapsed : ReadCard(uid, elapsed)
    \/ \E elapsed \in SleepTicks..MaxElapsed : NoCard(elapsed)

SpecNfc == InitNfc /\ [][NextNfc]_vars

\* process_album with every combination of raising calls.
InitProcess == Init /\ HAS_MUSICBRAINZ /\ ~spotify_client_id /\ ~spotify_client_secret
                    /\ db_manager = "None"

NextProcess == \E fails \in [StageCalls -> BOOLEAN] : ProcessAlbum(fails)

SpecProcess == InitProcess /\ [][NextProcess]_vars

(***************************************************************************)
(* Properties.                                                             *)
(***************************************************************************)
\* C1: on every resolver, a call that repeats an earlier argument tuple
\* invokes no provider, issues no request, and returns what the first call
\* with that tuple returned.
C1_Memoized ==
    (call.op # "none" /\ call.repeat) =>
        /\ call.invoked = <<>>
        /\ call.requests = 0
        /\ ~call.raised
        /\ call.result = first[<<call.op, call.args>>]

\* C1, the case that breaks it: find_links is called again with the arguments
\* of a call that raised, and asks the local store again.
C1_RetryAfterRaise ==
    /\ call.op = "find_links"
    /\ call.repeat
    /\ call.invoked # <<>>

\* C2: a lookup whose providers all came back empty stores its absent result
\* under the query's key, and a later identical call returns absent from the
\* cache with no provider invoked and no request made, whatever the providers
\* would answer now.
C2_AbsentIsCached ==
    LET key == CASE call.op = "find_album_image" ->
                      AlbumCacheKey(call.args[1], call.args[2])
                 [] call.op = "find_artist_image" -> ArtistCacheKey(call.args[1])
                 [] call.op = "_search_lyrics" ->
                      LyricsCacheKey(call.args[1], call.args[2])
        store == IF call.op = "_search_lyrics" THEN lyr_cache ELSE cache
    IN /\ (/\ call.op \in {"find_album_image", "find_artist_image", "_search_lyrics"}
           /\ ~Truthy(call.result))
          => (key \in DOMAIN store /\ store[key] = None)
       /\ (/\ call.op \in {"find_album_image", "find_artist_image", "_search_lyrics"}
           /\ call.repeat
           /\ ~Truthy(first[<<call.op, call.args>>]))
          => (/\ call.hit
              /\ call.invoked = <<>>
              /\ call.requests = 0
              /\ call.result = None)

\* C2, its case: an album lookup that came back absent is repeated while the
\* cover archive would now have a cover, and it is answered absent from the
\* cache.
C2_AbsentHit ==
    /\ call.op = "find_album_image"
    /\ call.repeat
    /\ call.hit
    /\ call.result = None
    /\ call.world.mb = "found"
    /\ HAS_MUSICBRAINZ

\* The order of the album-image providers and the source each one signs its
\* payload with.
AlbumOrder == <<"musicbrainz", "lastfm", "discogs">>
AlbumSource ==
    <<"MusicBrainz Cover Art Archive", "Last.fm", "Discogs">>

\* C3: an album-image lookup that is not answered from the cache asks the
\* cover archive, then the scrobble service, then the marketplace; it stops at
\* the first provider that finds an image and returns that provider's
\* payload; it returns absent only after all three came back empty.
C3_AlbumOrder ==
    (call.op = "find_album_image" /\ ~call.hit) =>
        LET n == Len(call.invoked)
        IN /\ n \in 1..3
           /\ \A i \in 1..n : call.invoked[i] = AlbumOrder[i]
           /\ \A i \in 1..(n - 1) : call.outcomes[i] # "found"
           /\ IF call.outcomes[n] = "found"
              THEN /\ Truthy(call.result)
                   /\ call.result.source = AlbumSource[n]
              ELSE n = 3 /\ call.result = None

\* C3, its case: the cover archive has no release, the scrobble service
\* returns nothing, and the marketplace's cover is the result.
C3_ThirdProviderWins ==
    /\ call.op = "find_album_image"
    /\ ~call.hit
    /\ call.invoked = AlbumOrder
    /\ Truthy(call.result)
    /\ call.result.source = "Discogs"

C5_FailureContained ==
    (/\ call.op \in {"find_album_image", "find_artist_image", "_search_lyrics",
                     "find_links"}
     /\ \E i \in 1..Len(call.outcomes) : call.outcomes[i] \in {"error", "raise"})
    => (/\ ~call.raised
        /\ call.cached
        /\ call.op = "find_links" =>
              (/\ call.invoked = <<"database", "constructed">>
               /\ LinkCacheKey(call.args[1], call.args[2], call.args[3])
                      \in DOMAIN lnk_cache))

\* C5, the case that breaks it: the local store raises inside find_links and
\* the call ends with that exception, nothing cached.
C5_StoreRaises ==
    /\ call.op = "find_links"
    /\ call.raised
    /\ call.invoked = <<"database">>
    /\ LinkCacheKey(call.args[1], call.args[2], call.args[3]) \notin DOMAIN lnk_cache

\* C6: a lookup none of whose providers produced anything returns the absent
\* value of its kind (None for an image or a lyric, a mapping without links
\* for links, and in find_lyrics an entry with lyrics None and an error text
\* for the track) and does not raise.
C6_AbsentIsAValue ==
    LET nothing == \A i \in 1..Len(call.outcomes) :
                       call.outcomes[i] \notin {"found", "blank"}
        titled == {i \in 1..Len(call.args[2]) :
                      /\ "title" \in DOMAIN call.args[2][i]
                      /\ call.args[2][i].title \notin {<<>>, UNTITLED}}
    IN /\ (/\ call.op = "find_lyrics"
           /\ nothing
           /\ Len(call.outcomes) = 3 * Cardinality(titled))
          => (/\ ~call.raised
              /\ \A t \in DOMAIN call.result :
                    /\ call.result[t].lyrics = "None"
                    /\ call.result[t].error = "No se encontraron letras")
       /\ (/\ call.op \in {"find_album_image", "find_artist_image", "_search_lyrics",
                            "find_links"}
           /\ ~call.hit
           /\ nothing
           /\ call.op = "find_links" => call.world.web = <<500, 0>>)
          => (/\ ~call.raised
              /\ call.result = IF call.op = "find_links" THEN <<>> ELSE None)

\* C6, the case that breaks it: every provider of find_links failed and the
\* caller gets an exception instead of an empty mapping.
C6_RaisedInsteadOfAbsent ==
    /\ call.op = "find_links"
    /\ call.raised
    /\ call.result = Raised

\* C7: a lookup with an empty artist is turned away: no provider, no throttle,
\* no request, nothing stored, and an outcome that is not the absent one.
C7_EmptyArtistRejected ==
    (call.op = "find_album_image" /\ call.args[1] = <<>>) =>
        /\ call.invoked = <<>>
        /\ call.acq = <<>>
        /\ call.requests = 0
        /\ AlbumCacheKey(call.args[1], call.args[2]) \notin DOMAIN cache
        /\ call.result # None
        /\ ~Truthy(call.result)

\* C7, the case that breaks it: find_album_image with an empty artist runs the
\* whole chain and caches what it got.
C7_EmptyArtistSearched ==
    /\ call.op = "find_album_image"
    /\ call.args[1] = <<>>
    /\ call.invoked # <<>>
    /\ AlbumCacheKey(call.args[1], call.args[2]) \in DOMAIN cache

C9_NormalizedKey ==
    (/\ call.op = "find_album_image"
     /\ \E k \in DOMAIN first :
           /\ k[1] = call.op
           /\ k[2] # call.args
           /\ normalize_text(k[2][1]) = normalize_text(call.args[1])
           /\ normalize_text(k[2][2]) = normalize_text(call.args[2]))
    => (call.hit /\ call.invoked = <<>>)

\* C9, the case that breaks it: after a lookup for "a", the lookup for "A" or
\* for the accented "a" misses the cache and runs the providers.
C9_CaseMisses ==
    /\ call.op = "find_album_image"
    /\ ~call.hit
    /\ call.invoked # <<>>
    /\ \E k \in DOMAIN first :
          /\ k[1] = call.op
          /\ k[2] # call.args
          /\ normalize_text(k[2][1]) = normalize_text(call.args[1])

\* The candidates for the text colour.
Candidates == {white, black, light_gray, dark_gray}

Categories == {"social", "streaming", "info", "official", "other"}

\* C11: _categorize_link returns one of the five categories for every name;
\* it is social exactly when the lower-cased name contains a social keyword,
\* streaming when it contains no social keyword but a streaming one, info when
\* the first keyword set it meets is the reference databases, official when it
\* meets only official/website/homepage, and other when it meets none; so
\* Twitter is social, Spotify streaming, Wikipedia info, Official Website
\* official and RandomThing other.
C11_Categorize ==
    the_category # "unset" =>
        LET Has(words) == \E w \in words : Contains(Lower(the_link_type), w)
        IN /\ the_category \in Categories
           /\ the_category = "social" <=> Has(SocialWords)
           /\ the_category = "streaming" <=> (~Has(SocialWords) /\ Has(StreamingWords))
           /\ the_category = "info" <=>
                 (~Has(SocialWords) /\ ~Has(StreamingWords) /\ Has(InfoWords))
           /\ the_category = "official" <=>
                 (/\ ~Has(SocialWords) /\ ~Has(StreamingWords) /\ ~Has(InfoWords)
                  /\ Has(OfficialWords))
           /\ the_link_type = <<"T", "w", "i", "t", "t", "e", "r">> => the_category = "social"
           /\ the_link_type = <<"S", "p", "o", "t", "i", "f", "y">> => the_category = "streaming"
           /\ the_link_type = <<"W", "i", "k", "i", "p", "e", "d", "i", "a">> => the_category = "info"
           /\ the_link_type = <<"O", "f", "f", "i", "c", "i", "a", "l", " ",
                                 "W", "e", "b", "s", "i", "t", "e">>
                 => the_category = "official"
           /\ the_link_type = <<"R", "a", "n", "d", "o", "m", "T", "h", "i", "n", "g">> => the_category = "other"

\* C11, its case: a name that carries a streaming and a social keyword is
\* categorized, and the social set, which comes first, decides.
C11_FirstSetDecides ==
    /\ the_link_type = <<"S", "p", "o", "t", "i", "f", "y", "_", "T", "w", "i", "t", "t", "e", "r">>
    /\ the_category = "social"

\* The links of a dictionary of dictionaries, as a set.
LinksOf(result) == {result[k] : k \in DOMAIN result}

C17_FirstAcceptedOnly ==
    (call.op = "find_links" /\ ~call.hit /\ ~call.raised) =>
        /\ \A i \in 1..Len(call.checks) :
              LET c == call.checks[i]
              IN IF i > 1 /\ call.checks[i - 1].service = c.service
                 THEN /\ c.candidate = call.checks[i - 1].candidate + 1
                      /\ ~call.checks[i - 1].ok
                 ELSE c.candidate = 1
        /\ \A i, j \in 1..Len(call.checks) :
              (i + 1 < j /\ call.checks[i].service = call.checks[j].service)
                  => call.checks[i + 1].service = call.checks[i].service
        /\ \A c \in {call.checks[i] : i \in 1..Len(call.checks)} :
              LET links == {l \in LinksOf(call.result) : l.source = c.service}
                  accepted == {call.checks[i].url : i \in
                                  {n \in 1..Len(call.checks) :
                                      /\ call.checks[n].service = c.service
                                      /\ call.checks[n].ok}}
              IN /\ Cardinality(links) <= 1
                 /\ {l.url : l \in links} = accepted

\* C17, its case: a service whose first candidate was accepted while a
\* second candidate was listed, and a call in which a second candidate was
\* accepted after the first was rejected.
C17_SecondNotVerified ==
    /\ call.op = "find_links" /\ ~call.hit /\ ~call.raised
    /\ \E i \in 1..Len(call.checks) :
          LET c == call.checks[i]
          IN /\ c.ok /\ c.candidate = 1
             /\ \E p \in {UrlPatterns(call.args[1], call.args[2])} :
                   \E n \in 1..Len(p) :
                      p[n].service = c.service /\ Len(p[n].urls) > 1

\* C15: within a call, and from the resolver's last request before the call
\* to the call's first, any two consecutive outbound requests of the resolver
\* start at least the minimum interval apart.
C15_RequestsThrottled ==
    \A i \in 1..(Len(call.sent) - 1) :
        call.sent[i + 1] - call.sent[i] >= rate_limit_delay

\* C15, its case: in find_links a HEAD request raised, and the request for
\* the next candidate started less than the interval after it.
C15_RequestAfterFailure ==
    /\ call.op = "find_links" /\ ~call.hit
    /\ Len(call.sent) = Len(call.checks)
    /\ \E i \in 1..(Len(call.checks) - 1) :
          /\ call.checks[i].status = 0
          /\ call.sent[i + 1] - call.sent[i] < lnk_min_request_interval

\* What a step does to one cache: every key stays and keeps its value.
Kept(c, d) == \A k \in DOMAIN c : k \in DOMAIN d /\ d[k] = c[k]

\* C16: no step of a resolver removes an entry from its cache or changes the
\* value stored under a key.
C16_EntriesKept ==
    [][/\ Kept(cache, cache')
       /\ Kept(lyr_cache, lyr_cache')
       /\ Kept(lnk_cache, lnk_cache')]_vars

\* C16, its case: the link lookup is repeated while the web would now accept
\* every candidate, and the entry stored by the first call, which found no
\* link, is still what the cache holds.
C16_RepeatedWithOtherAnswers ==
    /\ call.op = "find_links" /\ call.repeat /\ call.hit
    /\ call.world.web = <<200, 200>>
    /\ call.result = <<>>
    /\ lnk_cache[LinkCacheKey(call.args[1], call.args[2], call.args[3])] = <<>>

\* C13: every colour extraction yields an RGB colour and never "no colour":
\* for a cover that decodes, the first passing colour of the scan or else the
\* channel mean, and for a cover that cannot be decoded the fixed gray.
C13_AlwaysAColor ==
    extracted.by # "none" =>
        /\ extracted.via \in {"scan", "mean", "except"}
        /\ extracted.color # None
        /\ \A ch \in 1..3 : extracted.color[ch] \in 0..255
        /\ image.decoded => extracted.color = ScanOrMean(image.pixels).color
        /\ ~image.decoded => extracted.color = <<80, 80, 80>>

\* C13, its case: the extraction of the page generator was given a cover
\* that cannot be decoded and returned None.
C13_NoColor ==
    /\ extracted.by = "HTMLGenerator"
    /\ ~image.decoded
    /\ extracted.color = None

\* The most common colours of the cover, and the first of them in a set of
\* ranks.
Scanned == most_common(grouped_colors(image.pixels), TopColors)
FirstOf(ranks) == Scanned[CHOOSE r \in ranks : \A q \in ranks : r <= q]

\* C14 as stated: the scan returns the first colour whose brightness is
\* strictly between 20 and 235 with saturation above 0.1, or whose brightness
\* is below 100 whatever its saturation, near-black included; such a colour
\* is returned by the scan and not through the mean.
C14_DarkAlwaysScanned ==
    (extracted.by # "none" /\ image.decoded) =>
        LET sum(c) == c[1] + c[2] + c[3]
            ranks == {r \in 1..Len(Scanned) :
                        \/ /\ 60 < sum(Scanned[r]) /\ sum(Scanned[r]) < 705
                           /\ Max3(Scanned[r]) > 0
                           /\ (Max3(Scanned[r]) - Min3(Scanned[r])) * 10
                                 > Max3(Scanned[r])
                        \/ sum(Scanned[r]) < 300}
        IN ranks # {} =>
              (extracted.via = "scan" /\ extracted.color = FirstOf(ranks))

\* C14: the scan returns the first colour whose brightness is strictly
\* between 20 and 235 and which, in addition, has saturation above 0.1 or
\* brightness below 100; a colour of brightness 20 or less never passes, and
\* when no colour passes the result is the channel mean of the image.
C14_ScanFilter ==
    (extracted.by # "none" /\ image.decoded) =>
        LET sum(c) == c[1] + c[2] + c[3]
            ranks == {r \in 1..Len(Scanned) :
                        /\ 60 < sum(Scanned[r]) /\ sum(Scanned[r]) < 705
                        /\ \/ /\ Max3(Scanned[r]) > 0
                              /\ (Max3(Scanned[r]) - Min3(Scanned[r])) * 10
                                    > Max3(Scanned[r])
                           \/ sum(Scanned[r]) < 300}
        IN /\ ranks # {} =>
                (extracted.via = "scan" /\ extracted.color = FirstOf(ranks))
           /\ ranks = {} =>
                (/\ extracted.via = "mean"
                 /\ extracted.color = ImageMean(image.pixels))
           /\ extracted.via = "scan" => sum(extracted.color) > 60

\* C14, its case: black is the most common colour of the cover, a saturated
\* red the second, and the scan passed over black and returned the red.
C14_BlackPassedOver ==
    /\ image.decoded
    /\ image.pixels = <<(<<0, 0, 0>>), (<<0, 0, 0>>), (<<255, 0, 0>>)>>
    /\ extracted.by = "ColorAnalyzer"
    /\ extracted.via = "scan"
    /\ extracted.color = <<250, 0, 0>>

\* The candidates in the order of their priority.
Priority == <<white, black, light_gray, dark_gray>>

\* C18: in every palette built for a page, the primary text is the first of
\* white, black, light gray and dark gray whose contrast ratio against the
\* primary background is at least 4.5, white whenever white reaches 4.5, and
\* the candidate of greatest ratio only when none reaches 4.5.
C18_PriorityOrder ==
    palette # NoPalette =>
        LET background == hex_to_rgb(palette.background_primary)
            text == hex_to_rgb(palette.text_primary)
            ratio(i) == calculate_contrast_ratio(background, Priority[i])
            reaching == {i \in 1..Len(Priority) : ratio(i) >= AA}
        IN /\ reaching # {} =>
                text = Priority[CHOOSE i \in reaching : \A j \in reaching : i <= j]
           /\ reaching = {} =>
                (/\ text \in Candidates
                 /\ \A i \in 1..Len(Priority) :
                       ratio(i) <= calculate_contrast_ratio(background, text))

\* C18, its case: the palette of the page generator has a background against
\* which white reaches 4.5, and its primary text is black.
C18_BlackAlthoughWhiteReaches ==
    /\ palette # NoPalette
    /\ palette.builder = "_create_optimized_palette"
    /\ calculate_contrast_ratio(hex_to_rgb(palette.background_primary), white) >= AA
    /\ hex_to_rgb(palette.text_primary) = black

\* The resolver an operation belongs to.
ResolverOf(op) ==
    CASE op \in {"find_album_image", "find_artist_image"} -> "image"
      [] op \in {"_search_lyrics", "find_lyrics"} -> "lyrics"
      [] op \in {"find_links", "verify_link"} -> "links"
      [] OTHER -> "none"

\* A run on a resolver that has done nothing yet.
FreshRun == NewRun(0, 0, <<>>)

\* C19: a call on one resolver leaves the cache and the last-request time of
\* the other two unchanged, and what a call returns when its key is not
\* cached is what the same call returns on a resolver that was never used,
\* whichever resolvers ran before it.
C19_PrivateState ==
    [][ncalls' # ncalls =>
        /\ ResolverOf(call'.op) # "image" =>
              UNCHANGED <<cache, last_request_time>>
        /\ ResolverOf(call'.op) # "lyrics" =>
              UNCHANGED <<lyr_cache, lyr_last_request_time>>
        /\ ResolverOf(call'.op) # "links" =>
              UNCHANGED <<lnk_cache, lnk_last_request_time>>
        /\ (call'.op = "find_album_image" /\ ~call'.hit) =>
              call'.result = AlbumImageChain(FreshRun, call'.world.mb,
                                             call'.world.dg, 0).result
        /\ (call'.op = "_search_lyrics" /\ ~call'.hit) =>
              call'.result = LyricsChain(FreshRun, call'.world.ovh, 0).result
        /\ (call'.op = "find_links" /\ ~call'.hit) =>
              call'.result = LinksChain(FreshRun, call'.args[1], call'.args[2],
                                        call'.world.web, 0).links
      ]_vars

\* C19, its case: the lyrics lookup ran after the image lookup had filled
\* its cache and moved its timestamp, while the link resolver is untouched.
C19_LyricsAfterImage ==
    /\ call.op = "_search_lyrics" /\ ~call.hit
    /\ cache # <<>>
    /\ last_request_time > 0
    /\ lyr_last_request_time > last_request_time
    /\ lnk_cache = <<>> /\ lnk_last_request_time = 0

\* C20: whatever the interleaving of two callers that look up the same key
\* on one resolver, the provider chain runs at most once for that key.
C20_ChainOncePerKey ==
    \A key \in DOMAIN chains : chains[key] <= 1

\* C20, its case: both callers looked up the same album, both found the
\* cache empty before either had stored, and the providers ran twice.
C20_BothRanTheChain ==
    /\ \A t \in Threads :
          /\ threads[t].pc = "done"
          /\ threads[t].op = "find_album_image"
          /\ threads[t].key = AlbumCacheKey(<<"a">>, <<"e">>)
    /\ chains[AlbumCacheKey(<<"a">>, <<"e">>)] = 2

\* C21: every result of find_album_image and find_artist_image that is not
\* absent, and every such entry of the image cache, carries an image URL and
\* a source label.
C21_UrlAndSource ==
    LET Complete(v) ==
            Truthy(v) => ("url" \in DOMAIN v /\ "source" \in DOMAIN v)
    IN /\ call.op \in {"find_album_image", "find_artist_image"}
            => Complete(call.result)
       /\ \A k \in DOMAIN cache : Complete(cache[k])

\* C21, its case: MusicBrainz knew the artist, and find_artist_image stopped
\* there and returned and cached an entry with an MBID and no image URL.
C21_MbidWithoutUrl ==
    /\ call.op = "find_artist_image" /\ ~call.hit
    /\ call.invoked[Len(call.invoked)] = "musicbrainz"
    /\ Truthy(call.result)
    /\ "url" \notin DOMAIN call.result
    /\ cache[ArtistCacheKey(call.args[1])] = call.result

\* C22: in find_lyrics a track whose title is missing, empty or the
\* placeholder produces no entry, no provider call and no _rate_limit call;
\* the result has exactly the titles of the other tracks, each with either
\* what a provider found, with its source, or the entry with lyrics None and
\* an error text.
C22_TitledTracksOnly ==
    call.op = "find_lyrics" =>
        LET tracks == call.args[2]
            titled == {n \in 1..Len(tracks) :
                          /\ "title" \in DOMAIN tracks[n]
                          /\ tracks[n].title # <<>>
                          /\ tracks[n].title #
                                <<"P", "i", "s", "t", "a", " ", "S", "i", "n", " ",
                                  "T", "i^", "t", "u", "l", "o">>}
            titles == {tracks[i].title : i \in titled}
            searched == {n \in 1..Len(call.invoked) : call.invoked[n] = "genius"}
        IN /\ DOMAIN call.result = titles
           /\ Cardinality(searched) <= Cardinality(titled)
           /\ titles = {} => (call.invoked = <<>> /\ call.acq = <<>>)
           /\ Len(call.acq) = Len(call.invoked)
           /\ \A t \in titles :
                 \/ /\ call.result[t].lyrics # "None"
                    /\ call.result[t].source = "lyrics.ovh"
                 \/ /\ call.result[t].lyrics = "None"
                    /\ call.result[t].error = "No se encontraron letras"

\* C22, its case: a titled track followed by one with an empty title and one
\* with the placeholder; one chain of three providers ran and the result has
\* the one entry.
C22_UntitledSkipped ==
    /\ call.op = "find_lyrics"
    /\ Len(call.args[2]) = 3
    /\ call.args[2][2].title = <<>>
    /\ call.args[2][3].title = UNTITLED
    /\ DOMAIN call.result = {call.args[2][1].title}
    /\ Len(call.invoked) = 3

\* C23: once the album was read, a failing comment, image, lyrics or link
\* stage never ends process_album: the image, lyrics and link stages and then
\* page generation are all entered, in that order (only the artist image,
\* second call of the image stage, is skipped when the album image call
\* raised), and an exception leaves process_album exactly when page generation
\* itself failed.
C23_OnlyPageGenerationFatal ==
    (processed # NotProcessed /\ ~processed.fails["extract_album_info"]) =>
        /\ processed.ran =
               <<"extract_album_info", "get_user_comment", "find_album_image">>
               \o (IF processed.fails["find_album_image"] THEN <<>>
                   ELSE <<"find_artist_image">>)
               \o <<"find_lyrics", "find_links", "_generate_web_files">>
        /\ processed.raised <=> processed.fails["_generate_web_files"]
        /\ "user_comment" \in processed.keys

\* Comment, album image, lyrics and links all raised and the page was still
\* generated without an exception.
C23_AllStagesFailedPageBuilt ==
    /\ processed # NotProcessed
    /\ \A n \in {"get_user_comment", "find_album_image", "find_lyrics", "find_links"} :
           processed.fails[n]
    /\ ~processed.fails["extract_album_info"]
    /\ ~processed.fails["_generate_web_files"]
    /\ processed.ran[Len(processed.ran)] = "_generate_web_files"
    /\ ~processed.raised
    /\ processed.keys = {"user_comment"}

\* C24: the cache keys tell the queries apart: two different (artist, album),
\* (artist, title) or (artist, album, mbid) queries never get one key, so a
\* lookup answered from the cache repeats an earlier call with the very same
\* arguments.
C24_KeysInjective ==
    /\ \A a1 \in KeyArtists, a2 \in KeyArtists, b1 \in KeyAlbums, b2 \in KeyAlbums :
          <<a1, b1>> # <<a2, b2>> =>
             /\ AlbumCacheKey(a1, b1) # AlbumCacheKey(a2, b2)
             /\ LyricsCacheKey(a1, b1) # LyricsCacheKey(a2, b2)
             /\ LinkCacheKey(a1, b1, NoneText) # LinkCacheKey(a2, b2, NoneText)
    /\ (call.op \in {"find_album_image", "_search_lyrics", "find_links"} /\ call.hit)
          => call.repeat

\* C24, the case that breaks it: the album image of artist "a", album "b_c"
\* is answered from the cache with the image found for artist "a_b", album
\* "c", although the provider has nothing for the query now asked.
C24_AnswerOfAnotherQuery ==
    /\ call.op = "find_album_image"
    /\ call.args = <<<<"a">>, <<"b", "_", "c">>>>
    /\ call.world.mb = "no_release"
    /\ call.hit /\ ~call.repeat
    /\ Truthy(call.result)
    /\ <<"find_album_image", <<<<"a", "_", "b">>, <<"c">>>>>> \in DOMAIN first
    /\ call.result = first[<<"find_album_image", <<<<"a", "_", "b">>, <<"c">>>>>>]

\* C25: whatever the background, white or black reaches the ratio 4.5 on it
\* (the two ratios multiply to 21), so both get_optimal_text_color functions
\* answer white or black, never a gray and never the greatest-ratio fallback:
\* on the dominant colour itself and on the primary background of a palette.
C25_WhiteOrBlack ==
    LET Settled(bg) ==
            LET white_contrast == calculate_contrast_ratio(bg, white)
                black_contrast == calculate_contrast_ratio(bg, black)
            IN /\ white_contrast >= AA \/ black_contrast >= AA
               /\ white_contrast * black_contrast <= 21 * 1000 * 1000
               /\ white_contrast * black_contrast >= 21 * 1000 * 1000 - 2 * black_contrast
               /\ get_optimal_text_color(bg) \in {white, black}
               /\ html_get_optimal_text_color(bg) \in {white, black}
    IN /\ Settled(dominant_color)
       /\ palette # NoPalette =>
             /\ Settled(hex_to_rgb(palette.background_primary))
             /\ palette.text_primary \in {rgb_to_hex(white), rgb_to_hex(black)}

\* C25, its case: a palette on a background where white stays below 4.5 and
\* black passes it by less than 0.2, with black text.
C25_BlackJustReaches ==
    /\ palette # NoPalette
    /\ palette.builder = "_create_optimized_palette"
    /\ LET bg == hex_to_rgb(palette.background_primary)
       IN /\ calculate_contrast_ratio(bg, white) < AA
          /\ calculate_contrast_ratio(bg, black) >= AA
          /\ calculate_contrast_ratio(bg, black) < AA + 200
    /\ palette.text_primary = rgb_to_hex(black)

\* The service a filed link belongs to: the source of a constructed link,
\* the link type of a link of the local store.
ServiceOf(key, link) ==
    IF link.source # <<"d", "a", "t", "a", "b", "a", "s", "e">> THEN link.source
    ELSE IF Len(key) > 6 /\ SubSeq(key, 1, 6) = <<"a", "l", "b", "u", "m", "_">> THEN SubSeq(key, 7, Len(key))
    ELSE key

\* C26: every link of a find_links result is filed under the category that
\* _categorize_link gives for its service name, whether the link was
\* constructed or came from the local store, so no service is filed under two
\* categories.
C26_FiledAsCategorized ==
    (call.op = "find_links" /\ ~call.raised) =>
        /\ \A k \in DOMAIN call.result :
               k[1] = categorize_link(ServiceOf(k[2], call.result[k]))
        /\ \A k1 \in DOMAIN call.result, k2 \in DOMAIN call.result :
               ServiceOf(k1[2], call.result[k1]) = ServiceOf(k2[2], call.result[k2])
                  => k1[1] = k2[1]

\* C26, the case that breaks it: one result holds the rateyourmusic link of
\* the local store under "other" and the constructed one under "info".
C26_OneServiceTwoCategories ==
    /\ call.op = "find_links" /\ ~call.raised /\ ~call.hit
    /\ <<"other", <<"r", "a", "t", "e", "y", "o", "u", "r", "m", "u", "s", "i", "c">>>> \in DOMAIN call.result
    /\ call.result[<<"other", <<"r", "a", "t", "e", "y", "o", "u", "r", "m", "u", "s", "i", "c">>>>].source = <<"d", "a", "t", "a", "b", "a", "s", "e">>
    /\ \E k \in DOMAIN call.result :
          /\ k[1] = "info"
          /\ call.result[k].source = <<"r", "a", "t", "e", "y", "o", "u", "r", "m", "u", "s", "i", "c">>
    /\ categorize_link(<<"r", "a", "t", "e", "y", "o", "u", "r", "m", "u", "s", "i", "c">>) = "other"

\* The keys under which the local store can deliver a link: the link types
\* of find_artist_links, and "album_" with those of find_album_links.
DatabaseLinkKeys ==
    LET common == {<<"s", "p", "o", "t", "i", "f", "y">>, <<"y", "o", "u", "t", "u", "b", "e">>, <<"m", "u", "s", "i", "c", "b", "r", "a", "i", "n", "z">>, <<"d", "i", "s", "c", "o", "g", "s">>, <<"r", "a", "t", "e", "y", "o", "u", "r", "m", "u", "s", "i", "c">>,
                   <<"w", "i", "k", "i", "p", "e", "d", "i", "a">>, <<"b", "a", "n", "d", "c", "a", "m", "p">>, <<"l", "a", "s", "t", "f", "m">>}
    IN common \cup {<<"o", "f", "f", "i", "c", "i", "a", "l", "_", "w", "e", "b", "s", "i", "t", "e">>}
       \cup {<<"a", "l", "b", "u", "m", "_">> \o t : t \in common \cup {<<"m", "u", "s", "i", "c", "b", "r", "a", "i", "n", "z", "_", "a", "l", "b", "u", "m">>}}

\* C27: in the merged result of find_links every link of the local store is
\* present under its own category and key with url, title and source
\* unchanged, and no constructed link takes a key the local store can use.
C27_StoreLinksKept ==
    (call.op = "find_links" /\ ~call.raised) =>
        LET db_links == SearchDatabaseLinks(
                            NewRun(lnk_last_request_time, grants.links, sent.links)).links
        IN /\ db_manager # "None" =>
                 \A k \in DOMAIN db_links :
                    /\ k \in DOMAIN call.result
                    /\ call.result[k] = db_links[k]
                    /\ k[2] \in DatabaseLinkKeys
           /\ \A k \in DOMAIN call.result :
                 call.result[k].source # <<"d", "a", "t", "a", "b", "a", "s", "e">> => k[2] \notin DatabaseLinkKeys

\* C27, its case: a merged result holds the spotify link of the local store
\* next to a constructed spotify link in the same category.
C27_StoreAndConstructed ==
    /\ call.op = "find_links" /\ ~call.raised /\ ~call.hit
    /\ db_manager = "rows"
    /\ <<"streaming", <<"s", "p", "o", "t", "i", "f", "y">>>> \in DOMAIN call.result
    /\ call.result[<<"streaming", <<"s", "p", "o", "t", "i", "f", "y">>>>] =
          [url |-> <<"d", "b", ":", "/", "/", "s", "p", "o", "t", "i", "f", "y">>, title |-> <<"a", " ", "e", "n", " ", "S", "p", "o", "t", "i", "f", "y">>, source |-> <<"d", "a", "t", "a", "b", "a", "s", "e">>]
    /\ \E k \in DOMAIN call.result :
          /\ k[1] = "streaming"
          /\ call.result[k].source = <<"s", "p", "o", "t", "i", "f", "y">>

\* C28: the monitor never runs the command of one card twice within 3
\* seconds: two dispatches for the same UID are always more than 3 seconds
\* apart, whatever is read in between.
C28_ThreeSecondsApart ==
    (nfc.latest # NoDispatch /\ ~nfc.latest.first) => nfc.latest.since > DebounceTicks

\* C28, the case that breaks it: the first card is read, another card half a
\* second later, and the first again after another half second; its command
\* runs a second time one second after the first.
C28_SwappedCards ==
    /\ nfc.latest # NoDispatch
    /\ nfc.latest.uid = "B2BA9C1E"
    /\ ~nfc.latest.first
    /\ nfc.latest.since = 2 * SleepTicks
    /\ nfc.ultima_tarjeta = "B2BA9C1E"

\* C29: from an index without duplicates, after any calls of
\* _update_albums_index the index has at most one entry per (artist, title);
\* a call for an album already in the index puts the new entry at the old
\* one's position and leaves the other entries and the length as they were,
\* and a call for a new album appends exactly one entry.
C29_OneEntryPerAlbum ==
    /\ NoDuplicates(albums_data)
    /\ last_entry # NoEntry =>
          LET before == last_entry.before
              entry == last_entry.entry
              same == {i \in 1..Len(before) :
                          /\ before[i].artist = entry.artist
                          /\ before[i].title = entry.title}
          IN IF same # {}
             THEN /\ Len(albums_data) = Len(before)
                  /\ \A i \in 1..Len(before) :
                        albums_data[i] = IF i \in same THEN entry ELSE before[i]
             ELSE albums_data = Append(before, entry)

\* C29, its case: an album that stands first of two in the index is
\* processed again under another file name and only its entry changes.
C29_ReplacedInPlace ==
    /\ last_entry # NoEntry
    /\ Len(last_entry.before) = 2
    /\ Len(albums_data) = 2
    /\ albums_data[1] = last_entry.entry
    /\ albums_data[1] # last_entry.before[1]
    /\ albums_data[1].artist = last_entry.before[1].artist
    /\ albums_data[1].title = last_entry.before[1].title
    /\ albums_data[2] = last_entry.before[2]

\* C30: _get_spotify_token sends a token request exactly when the
\* credentials are configured and either no token is held or the time has
\* reached the stored expiry, which is the time of the grant plus expires_in
\* minus 60; otherwise token and expiry stay and the held token is reused;
\* and a token request that fails leaves token and expiry as they were.
C30_TokenRequests ==
    \A i \in 1..Len(call.token_log) :
       LET e == call.token_log[i]
       IN /\ e.requested <=>
                /\ spotify_client_id /\ spotify_client_secret
                /\ e.token = "None" \/ e.at >= e.token_expires
          /\ (~e.requested \/ ~e.ok) =>
                /\ e.token_after = e.token
                /\ e.token_expires_after = e.token_expires
          /\ (e.requested /\ e.ok) =>
                /\ e.token_after # "None"
                /\ \E k \in 0..MaxLifetime, lat \in Latencies :
                      e.token_expires_after = e.at + lat + k * TicksPerUnit

\* C30, the case that breaks it: with no token held, the endpoint answers
\* with an access_token and no expires_in; the call fails and the token is
\* stored all the same, with the old expiry.
C30_TokenWithoutExpiry ==
    /\ call.op = "find_artist_image"
    /\ Len(call.token_log) = 1
    /\ call.token_log[1].requested /\ ~call.token_log[1].ok
    /\ call.token_log[1].token = "None"
    /\ spotify_token = "access_token"
    /\ spotify_token_expires = 0
    /\ ~Truthy(call.result)

====
